---- MODULE Spec2Model ----
(***************************************************************************)
(* The event-to-upload pipeline of the sftp-sync auto-sync daemon:         *)
(* directory watcher, per-key debouncer, bounded upload queue with a       *)
(* retrying consumer, notifier, and configuration reload.                  *)
(*                                                                         *)
(* Go strings are modelled as sequences of one-character strings, so that  *)
(* strings.HasPrefix, strings.TrimPrefix, strings.Count and "+" are        *)
(* computed as the code computes them.  Durations are in milliseconds.     *)
(* Time is relative: a timer holds the time left until it expires and the  *)
(* notifier holds the age of its last notification; Tick lets time pass.   *)
(* Closures are modelled with Go's per-iteration loop variables.           *)
(***************************************************************************)
EXTENDS Integers, Sequences, FiniteSets, TLC

\* ------------------------------------------------------------------ bounds
MaxEvents == 3
MaxTimers == 2
MaxChan == 1
MaxReloads == 1
MaxErrCount == 21

\* ------------------------------------------------------- program constants
QueueCap == 100
DefaultDebounceMs == 2000
MaxRetries == 3
BatchWindowMs == 30000
BatchThreshold == 5
Delays == <<1000, 2000, 4000>>

\* ----------------------------------------------------------------- strings
Min(a, b) == IF a < b THEN a ELSE b
Max(a, b) == IF a > b THEN a ELSE b

HasPrefix(s, prefix) ==
    Len(prefix) <= Len(s) /\ SubSeq(s, 1, Len(prefix)) = prefix

TrimPrefix(s, prefix) ==
    IF HasPrefix(s, prefix) THEN SubSeq(s, Len(prefix) + 1, Len(s)) ELSE s

HasSuffix(s, suffix) ==
    Len(suffix) <= Len(s) /\ SubSeq(s, Len(s) - Len(suffix) + 1, Len(s)) = suffix

Count(s, c) == Cardinality({i \in 1..Len(s) : s[i] = c})

PathSeparator == "/"

\* filepath.Base of a cleaned, non-empty path: the part after the last separator.
LastSep(s) == Max(0, CHOOSE i \in 0..Len(s) :
                        /\ (i = 0 \/ s[i] = PathSeparator)
                        /\ \A j \in (i + 1)..Len(s) : s[j] # PathSeparator)
Base(s) == IF s = <<PathSeparator>> THEN s ELSE SubSeq(s, LastSep(s) + 1, Len(s))
Dir(s)  == IF LastSep(s) <= 1 THEN <<PathSeparator>> ELSE SubSeq(s, 1, LastSep(s) - 1)

\* filepath.Clean on the paths of this model (absolute, no "." or ".." elements):
\* repeated separators collapse and a trailing separator is dropped.
RECURSIVE Clean(_)
Clean(s) ==
    IF Len(s) <= 1 THEN s
    ELSE IF s[Len(s)] = PathSeparator
         THEN Clean(SubSeq(s, 1, Len(s) - 1))
         ELSE IF \E i \in 1..(Len(s) - 1) : s[i] = PathSeparator /\ s[i + 1] = PathSeparator
              THEN LET i == CHOOSE k \in 1..(Len(s) - 1) :
                                s[k] = PathSeparator /\ s[k + 1] = PathSeparator
                   IN Clean(SubSeq(s, 1, i) \o SubSeq(s, i + 2, Len(s)))
              ELSE s

\* filepath.Abs: Clean for a path that is already absolute.
Abs(s) == Clean(s)

\* ------------------------------------------------------------------- world
NameP == <<"p">>
NameQ == <<"q">>
Names == {NameP, NameQ}

DirA   == <<"/", "a">>
DirAB  == <<"/", "a", "/", "b">>
DirC   == <<"/", "c">>
FileGone == <<"/", "a", "/", "x">>
FileAF == <<"/", "a", "/", "f">>
FileABG == <<"/", "a", "/", "b", "/", "g">>
FileCF == <<"/", "c", "/", "f">>
LinkAL == <<"/", "a", "/", "l">>
LinkAD == <<"/", "a", "/", "d">>

\* The local file system: what os.Lstat reports for each path.
InitFs ==
    (DirA :> "dir") @@ (DirAB :> "dir") @@ (DirC :> "dir") @@
    (FileAF :> "file") @@ (FileABG :> "file") @@ (FileCF :> "file") @@
    (LinkAL :> "symlink") @@ (LinkAD :> "symlink")

\* What os.Readlink reports for each symbolic link: /a/l points to a directory,
\* /a/d to a path that is missing in InitFs.
Readlink == (LinkAL :> DirC) @@ (LinkAD :> FileGone)

\* The symbolic links one path lookup follows before it gives up with ELOOP
\* (Linux: 40).
MaxLinks == 40

\* The .syncignore file of each context that has one: its pattern lines.
SyncignoreFiles == (DirA :> << <<"g">> >>)

\* The contexts whose .syncignore exists and cannot be opened or read.
UnreadableSyncignore == {DirC}

\* A profile of config.json; Profile(...) is one whose server fields are valid.
Profile(context, autoSync, debounce) ==
    [Host |-> <<"h">>, Username |-> <<"u">>, Password |-> <<"x">>, SSHKey |-> <<>>,
     Port |-> 22, Protocol |-> "sftp", RemotePath |-> <<"/">>,
     Context |-> context, AutoSync |-> autoSync, AutoSyncDebounce |-> debounce]

\* Profile.Validate: the error it returns, "nil" for none.
Validate(p) ==
    IF p.Host = <<>> THEN "ErrMissingHost"
    ELSE IF p.Username = <<>> THEN "ErrMissingUsername"
    ELSE IF p.Protocol # "ftp" /\ p.Protocol # "sftp" THEN "ErrInvalidProtocol"
    ELSE IF p.Port < 1 \/ p.Port > 65535 THEN "ErrInvalidPort"
    ELSE IF p.Protocol = "sftp" /\ p.Password = <<>> /\ p.SSHKey = <<>>
         THEN "ErrMissingPasswordOrKey"
    ELSE IF p.Protocol # "sftp" /\ p.Password = <<>> THEN "ErrMissingPassword"
    ELSE IF p.Context = <<>> THEN "ErrMissingContext"
    ELSE "nil"

\* Profile.SetDefaults: the port is filled in before the protocol is.
SetDefaults(p) ==
    LET port == IF p.Port = 0 THEN (IF p.Protocol = "sftp" THEN 22 ELSE 21) ELSE p.Port
    IN [p EXCEPT !.Port = port,
                 !.Protocol = IF @ = "" THEN "ftp" ELSE @,
                 !.RemotePath = IF @ = <<>> THEN <<"/">> ELSE @]

\* config.Load on a file that parses: every profile gets its defaults and is
\* validated, and one invalid profile fails the whole load.
LoadConfig(file) ==
    LET withDefaults == [name \in DOMAIN file |-> SetDefaults(file[name])]
    IN IF \E name \in DOMAIN file : Validate(withDefaults[name]) # "nil"
       THEN [err |-> TRUE, Profiles |-> << >>]
       ELSE [err |-> FALSE, Profiles |-> withDefaults]

\* ------------------------------------------------------------------- state
VARIABLES
    fsys,           \* local file system: path -> "dir" | "file" | "symlink"
    cfgFile,        \* contents of config.json: profile name -> Profile
    cfgPending,     \* a write event on config.json is waiting in configWatcher.Events
    rl,             \* the config goroutine: where it is in handleConfigReload
    profiles,       \* the registry shared by Daemon, handleConfigReload and the queue
    wprofiles,      \* Watcher.profiles
    wcallbacks,     \* Watcher.callbacks: name -> the profile name its closure enqueues
    subs,           \* directories subscribed in the fsnotify watcher
    events,         \* fsWatcher.Events: events not yet read by the event loop
    timers,         \* Debouncer.timers: key -> timer
    tmr,            \* the timer objects made by time.AfterFunc that can still act
    mutex,          \* Debouncer.mutex: Unlocked, or the goroutine that holds it
    queue,          \* the buffer of UploadQueue.queue
    cons,           \* the consumer goroutine(s) started by UploadQueue.Start
    successCount,   \* Notifier.successCount
    lastNotifyTime, \* Notifier.lastNotifyTime as an age in ms, -1 when absent
    errorCount,     \* Notifier.errorCount
    closed,         \* UploadQueue.queue has been closed
    proc,           \* the process: "running", "stopping" (signal received and
                    \* queue.Stop() called), "returned" (Daemon has returned),
                    \* "exited", "panic"
    profilesMu,     \* UploadQueue.profilesMu: "unlocked", "rlocked" or "locked"
    hist            \* history of the run, read by the properties only

watchVars == <<wprofiles, wcallbacks, subs>>
debVars   == <<timers, tmr, mutex>>
notiVars  == <<successCount, lastNotifyTime, errorCount>>
envVars   == <<fsys, cfgFile, cfgPending, rl>>
sysVars   == <<closed, proc, profilesMu>>
vars == <<fsys, cfgFile, cfgPending, rl, profiles, wprofiles, wcallbacks, subs, events,
          timers, tmr, mutex, queue, cons, successCount, lastNotifyTime, errorCount,
          closed, proc, profilesMu, hist>>

\* The goroutines of the process can take steps.
Alive == proc \in {"running", "stopping", "closing", "stopall", "returned"}

\* Daemon has not yet run its deferred Close calls: both fsnotify watchers are open.
Watching == proc \in {"running", "stopping", "closing", "stopall"}

\* The fsnotify watcher of config.json has not been closed.
ConfigWatching == proc \in {"running", "stopping"}

\* ----------------------------------------------------------------- watcher
\* What the file system holds at a cleaned path, "" for nothing.
KindAt(fs, clean) == IF clean \in DOMAIN fs THEN fs[clean] ELSE ""

\* What a path lookup has found: err is the error, "nil" for none, and path the
\* path of what it found.
Found(err, path) == [err |-> err, path |-> path]

\* The lookup of a path, element by element: a missing element gives ENOENT, a
\* regular file in the place of a directory of the path (the path goes on behind
\* it, be it with the separator alone) ENOTDIR; a symbolic link in the place of a
\* directory is followed, and so is one in the place of the last element when
\* last is true (os.Stat), but not otherwise (os.Lstat).
\* LookupStops: the elements, each as the index of its last byte, at which the
\* lookup does not simply go on.
LookupStops(fs, path, last) ==
    {k \in 1..Len(path) :
        /\ path[k] # PathSeparator
        /\ k = Len(path) \/ path[k + 1] = PathSeparator
        /\ KindAt(fs, Clean(SubSeq(path, 1, k))) \in
              (IF k < Len(path) THEN {"", "file", "symlink"}
               ELSE IF last THEN {"", "symlink"} ELSE {""})}

RECURSIVE PathLookup(_, _, _, _)
\* The lookup at the element that ends at k, which is at the path upTo and of the
\* kind kind.
LookupStop(fs, path, last, n, k, upTo, kind) ==
    IF kind = "" THEN Found("ENOENT", upTo)
    ELSE IF kind = "file" THEN Found("ENOTDIR", upTo)
    ELSE IF n = 0 \/ upTo \notin DOMAIN Readlink THEN Found("ELOOP", upTo)
    ELSE PathLookup(fs, Readlink[upTo] \o SubSeq(path, k + 1, Len(path)), last, n - 1)

LookupUpTo(fs, path, last, n, k, upTo) ==
    LookupStop(fs, path, last, n, k, upTo, KindAt(fs, upTo))

LookupEnd(fs, clean) == Found(IF clean \in DOMAIN fs THEN "nil" ELSE "ENOENT", clean)

LookupFrom(fs, path, last, n, stops) ==
    IF stops = {} THEN LookupEnd(fs, Clean(path))
    ELSE LookupUpTo(fs, path, last, n, CHOOSE i \in stops : \A j \in stops : i <= j,
                    Clean(SubSeq(path, 1, CHOOSE i \in stops : \A j \in stops : i <= j)))

PathLookup(fs, path, last, n) == LookupFrom(fs, path, last, n, LookupStops(fs, path, last))

\* The error of os.Lstat(path), which does not follow a link in the last element.
Lstat(fs, path) == PathLookup(fs, path, FALSE, MaxLinks).err

\* The error of os.Stat(path), which follows it.
Stat(fs, path) == PathLookup(fs, path, TRUE, MaxLinks).err

\* os.Stat(path) succeeds.
Exists(fs, path) == Stat(fs, path) = "nil"

\* os.IsNotExist of the error of os.Stat(path), the test of Watch.
IsNotExist(fs, path) == Stat(fs, path) = "ENOENT"

\* The directory behind the name d that filepath.Walk walks: d itself, or the
\* directory a symbolic link among the elements of the root of the walk leads to.
FoundDir(found, d) == IF found.err = "nil" THEN found.path ELSE d

RealDir(fs, d) == FoundDir(PathLookup(fs, d \o <<PathSeparator>>, FALSE, MaxLinks), d)

\* The directories filepath.Walk(root) visits: root and every directory below it
\* (Walk does not follow symbolic links).
DirsUnder(fs, root) ==
    {d \in DOMAIN fs : /\ fs[d] = "dir"
                       /\ (d = Clean(root) \/ HasPrefix(d, Clean(root) \o <<PathSeparator>>))}

\* The watcher's maps and subscriptions as one value, so that one reload can chain
\* several Watch and Unwatch calls.
WatcherState(wp, wc, sb) == [profiles |-> wp, callbacks |-> wc, subs |-> sb, err |-> FALSE]

MapPut(m, k, v) == [x \in (DOMAIN m) \cup {k} |-> IF x = k THEN v ELSE m[x]]
MapDel(m, k) == [x \in (DOMAIN m) \ {k} |-> m[x]]
EmptyMap == [x \in {} |-> x]

\* The bytes of the paths of this model in their order, the separator first.
PathChars == <<"/", "a", "b", "c", "d", "f", "g", "l", "x">>

Rank(ch) == CHOOSE i \in 1..Len(PathChars) : PathChars[i] = ch

\* filepath.Walk visits a before b: a directory before what is below it, and the
\* entries of one directory in the order of their names.
WalkBefore(a, b) ==
    /\ a # b
    /\ \/ HasPrefix(b, a)
       \/ \E i \in 1..Min(Len(a), Len(b)) :
             /\ SubSeq(a, 1, i - 1) = SubSeq(b, 1, i - 1)
             /\ Rank(a[i]) < Rank(b[i])

\* fsWatcher.Add(path) returns an error: a directory that may not be read.
AddFails(fs, path) == fs[RealDir(fs, path)] = "locked"

\* The paths filepath.Walk makes of the names it reads in d, which is the
\* directory real: those of the kinds given.
ReadDir(fs, d, real, kinds) ==
    {d \o SubSeq(e, Len(real) + 1, Len(e)) :
        e \in {x \in DOMAIN fs : x # real /\ Dir(x) = real /\ fs[x] \in kinds}}

InWalkOrder(S) ==
    CHOOSE o \in [1..Cardinality(S) -> S] :
       \A i, j \in 1..Cardinality(S) : i < j => WalkBefore(o[i], o[j])

\* filepath.Walk has called its function for the directory d and reads the names
\* in d: the directories of d, in the order of their names, come before those the
\* walk had still to visit.  Only directories count: for any other path the
\* functions of addRecursive and removeRecursive return at once.
WalkInto(fs, d, kinds, rest) == InWalkOrder(ReadDir(fs, d, RealDir(fs, d), kinds)) \o rest

\* The function addRecursive passes to filepath.Walk, called for the directory d:
\* fsWatcher.Add(d), whose error ends the walk.  open: the fsnotify watcher has not
\* been closed.  The directories are those of kind "dir" and those fsWatcher.Add
\* refuses.
AddDir(fs, open, sb, d, rest) ==
    IF ~open \/ AddFails(fs, d)
    THEN [subs |-> sb, walk |-> <<>>, err |-> TRUE]
    ELSE [subs |-> sb \cup {d}, walk |-> WalkInto(fs, d, {"dir", "locked"}, rest),
          err |-> FALSE]

\* addRecursive up to the return of its first call of fsWatcher.Add: Lstat(root),
\* whose result is info, fails and the function returns its error, or root is no
\* directory (a symbolic link to one included) and nothing is added, or root is
\* added.
AddRoot(fs, open, sb, root, info) ==
    IF info.err # "nil" THEN [subs |-> sb, walk |-> <<>>, err |-> TRUE]
    ELSE IF fs[info.path] \notin {"dir", "locked"}
    THEN [subs |-> sb, walk |-> <<>>, err |-> FALSE]
    ELSE AddDir(fs, open, sb, Clean(root), <<>>)

addRecursive(fs, open, sb, root) ==
    AddRoot(fs, open, sb, root, PathLookup(fs, root, FALSE, MaxLinks))

\* The function removeRecursive passes to filepath.Walk, called for the directory
\* d: fsWatcher.Remove(d), whose error is dropped.
RemoveDir(fs, sb, d, rest) ==
    [subs |-> sb \ {d}, walk |-> WalkInto(fs, d, {"dir"}, rest)]

\* removeRecursive up to the return of its first call of fsWatcher.Remove; info is
\* the result of Lstat(root).
RemoveRoot(fs, sb, root, info) ==
    IF info.err = "nil" /\ fs[info.path] = "dir"
    THEN RemoveDir(fs, sb, Clean(root), <<>>)
    ELSE [subs |-> sb, walk |-> <<>>]

removeRecursive(fs, sb, root) ==
    RemoveRoot(fs, sb, root, PathLookup(fs, root, FALSE, MaxLinks))

Ok(w) == [w EXCEPT !.err = FALSE]

\* The goroutine that calls Watch and Unwatch, between two of its reads and writes
\* of what other goroutines use:
\*   pc   "idle", or its next statement:
\*        "U1" Unwatch up to the first fsWatcher.Remove of removeRecursive,
\*        "Ur" the next fsWatcher.Remove, "U2" delete(w.profiles, name),
\*        "U3" delete(w.callbacks, name), "W1" Watch up to w.profiles[name] = profile,
\*        "W2" w.callbacks[name] = callback, "W3" addRecursive up to its first
\*        fsWatcher.Add, "Wa" the next fsWatcher.Add,
\*        "del" delete(profiles, oldName), "put" profiles[name] = newProfile
\*   ret  the caller: "gone" and "moved" (the branches of the first loop of
\*        handleConfigReload), "new" (its second loop), "api" (a call on the watcher)
\*   name the profile of the call; cfg newProfiles; old, new: the names the two
\*        loops have still to visit, in the order of their range statements
\*   walk the directories filepath.Walk has still to visit
NoCall == [pc |-> "idle", ret |-> "none", name |-> <<>>, cfg |-> EmptyMap,
           old |-> <<>>, new |-> <<>>, walk |-> <<>>]

WatchFrame(profileName, profile) ==
    [NoCall EXCEPT !.pc = "W1", !.ret = "api", !.name = profileName,
                   !.cfg = (profileName :> profile)]

UnwatchFrame(profileName) ==
    [NoCall EXCEPT !.pc = "U1", !.ret = "api", !.name = profileName]

\* handleConfigReload between two calls: the loops go on to the next profile that
\* needs a call of Unwatch or Watch, or end.
RECURSIVE Advance(_, _)
Advance(c, reg) ==
    IF c.old # <<>>
    THEN LET oldName == Head(c.old)
             rest == [c EXCEPT !.old = Tail(@), !.name = oldName]
         IN IF oldName \notin DOMAIN c.cfg \/ ~c.cfg[oldName].AutoSync
            THEN [rest EXCEPT !.pc = "U1", !.ret = "gone"]
            ELSE IF c.cfg[oldName].Context # reg[oldName].Context
                 THEN [rest EXCEPT !.pc = "U1", !.ret = "moved"]
                 ELSE Advance([c EXCEPT !.old = Tail(@)], reg)
    ELSE IF c.new # <<>>
    THEN LET newName == Head(c.new)
         IN IF \/ ~c.cfg[newName].AutoSync
               \/ newName \in DOMAIN reg
               \/ c.cfg[newName].Context = <<>>
            THEN Advance([c EXCEPT !.new = Tail(@)], reg)
            ELSE [c EXCEPT !.new = Tail(@), !.name = newName, !.pc = "W1", !.ret = "new"]
    ELSE NoCall

\* Unwatch has returned to its caller.
AfterUnwatchEndsReload(c, reg, err) ==
    IF c.ret = "api" \/ err THEN NoCall
    ELSE IF c.ret = "gone" THEN [c EXCEPT !.pc = "del"] ELSE [c EXCEPT !.pc = "W1"]

AfterUnwatch(c, reg, err) ==
    IF c.ret = "api" THEN NoCall
    ELSE IF c.ret = "gone" THEN [c EXCEPT !.pc = "del"]
    ELSE IF err THEN Advance(c, reg) ELSE [c EXCEPT !.pc = "W1"]

\* Watch has returned to its caller.
AfterWatch(c, reg, err) ==
    IF c.ret = "api" THEN NoCall
    ELSE IF err THEN Advance(c, reg) ELSE [c EXCEPT !.pc = "put"]

\* The goroutine writes w.profiles, or w.callbacks, in its next step.
WritesProfiles(fs, c) ==
    c.pc = "U2" \/ (c.pc = "W1" /\ ~IsNotExist(fs, c.cfg[c.name].Context))

WritesCallbacks(c) == c.pc \in {"U3", "W2"}

\* One statement of the goroutine on the registry reg and the watcher w; open: the
\* fsnotify watcher has not been closed.  returned: what the call that returned in
\* this step returned.
CallStep(fs, open, s) ==
    LET c == s.rl
        name == c.name
        w == s.w
        removed(r) == [s EXCEPT !.rl.pc = IF r.walk = <<>> THEN "U2" ELSE "Ur",
                                !.rl.walk = r.walk, !.w.subs = r.subs,
                                !.returned = "none"]
        added(a) == IF a.err \/ a.walk = <<>>
                    THEN [s EXCEPT !.rl = AfterWatch([c EXCEPT !.walk = <<>>], s.reg, a.err),
                                   !.w.subs = a.subs,
                                   !.returned = IF a.err THEN "error" ELSE "nil"]
                    ELSE [s EXCEPT !.rl.pc = "Wa", !.rl.walk = a.walk, !.w.subs = a.subs,
                                   !.returned = "none"]
    IN CASE c.pc = "U1" ->
              IF name \notin DOMAIN w.profiles
              THEN [s EXCEPT !.rl = AfterUnwatch(c, s.reg, TRUE), !.returned = "error"]
              ELSE removed(removeRecursive(fs, w.subs, w.profiles[name].Context))
         [] c.pc = "Ur" ->
              removed(RemoveDir(fs, w.subs, Head(c.walk), Tail(c.walk)))
         [] c.pc = "U2" ->
              [s EXCEPT !.rl.pc = "U3", !.w.profiles = MapDel(@, name),
                        !.returned = "none"]
         [] c.pc = "U3" ->
              [s EXCEPT !.rl = AfterUnwatch(c, s.reg, FALSE),
                        !.w.callbacks = MapDel(@, name), !.returned = "nil"]
         [] c.pc = "del" ->
              [s EXCEPT !.rl = Advance(c, MapDel(s.reg, name)),
                        !.reg = MapDel(@, name), !.returned = "none"]
         [] c.pc = "W1" ->
              IF IsNotExist(fs, c.cfg[name].Context)
              THEN [s EXCEPT !.rl = AfterWatch(c, s.reg, TRUE), !.returned = "error"]
              ELSE [s EXCEPT !.rl.pc = "W2", !.w.profiles = MapPut(@, name, c.cfg[name]),
                             !.returned = "none"]
         [] c.pc = "W2" ->
              [s EXCEPT !.rl.pc = "W3", !.w.callbacks = MapPut(@, name, name),
                        !.returned = "none"]
         [] c.pc = "W3" ->
              added(addRecursive(fs, open, w.subs, c.cfg[name].Context))
         [] c.pc = "Wa" ->
              added(AddDir(fs, open, w.subs, Head(c.walk), Tail(c.walk)))
         [] c.pc = "put" ->
              [s EXCEPT !.rl = Advance(c, MapPut(s.reg, name, c.cfg[name])),
                        !.reg = MapPut(@, name, c.cfg[name]), !.returned = "none"]

CallState(c, reg, w) == [rl |-> c, reg |-> reg, w |-> Ok(w), returned |-> "none"]

\* The goroutine runs to the end of what it is in, with no other goroutine between.
RECURSIVE RunCalls(_, _)
RunCalls(fs, s) == IF s.rl.pc = "idle" THEN s ELSE RunCalls(fs, CallStep(fs, TRUE, s))

\* Watch returns an error when os.Stat finds nothing at the context; else it
\* stores the profile and the callback and then subscribes the tree; the error of
\* addRecursive is returned with the registration left in the maps.
Watch(fs, w, profileName, profile) ==
    LET s == RunCalls(fs, CallState(WatchFrame(profileName, profile), EmptyMap, w))
    IN [s.w EXCEPT !.err = (s.returned = "error")]

Unwatch(fs, w, profileName) ==
    LET s == RunCalls(fs, CallState(UnwatchFrame(profileName), EmptyMap, w))
    IN [s.w EXCEPT !.err = (s.returned = "error")]

\* The profiles whose context holds filePath.
Matches(wp, filePath) ==
    {name \in DOMAIN wp :
        \/ HasPrefix(filePath, wp[name].Context \o <<PathSeparator>>)
        \/ filePath = wp[name].Context}

Depth(profile) == Count(profile.Context, PathSeparator)

findMatchingProfilesShallow(wp, filePath) == Matches(wp, filePath)

\* The match findMatchingProfiles appends for an entry of w.profiles it has read.
Match(name, profile) == [name |-> name, depth |-> Depth(profile)]

\* The end of findMatchingProfiles: the names of the matches of the greatest depth.
DeepestMatches(matches) ==
    {m.name : m \in {x \in matches : \A other \in matches : other.depth <= x.depth}}

findMatchingProfiles(wp, filePath) ==
    DeepestMatches({Match(name, wp[name]) : name \in Matches(wp, filePath)})

DelayOf(profile) ==
    IF profile.AutoSyncDebounce = 0 THEN DefaultDebounceMs ELSE profile.AutoSyncDebounce

DebounceKey(profileName, filePath) == profileName \o <<":">> \o filePath

\* --------------------------------------------------------------- debouncer
DebouncerState(tm, t) == [timers |-> tm, tmr |-> t]

FreeTimer(t) == CHOOSE i \in 1..(Cardinality(DOMAIN t) + 1) : i \notin DOMAIN t

\* timer.Stop(): a timer that has not expired is cancelled; one that has expired has
\* started its function in its own goroutine, and Stop does not reach it.
StopTimer(t, id) ==
    IF id \in DOMAIN t /\ t[id].st = "armed" THEN MapDel(t, id) ELSE t

AddDropped(d, key, delay, callbackName, filePath) == d

\* d.mutex is free, or held by a goroutine between its d.mutex.Lock() and its
\* d.mutex.Unlock(): by the function of the timer id, by the event loop inside
\* Add, by a caller of Stop(key) or of StopAll.
Holder(by, id, key) == [by |-> by, id |-> id, key |-> key]

Unlocked == Holder("none", 0, <<>>)

TimerHolder(id) == Holder("timer", id, <<>>)

\* d.mutex.Lock() returns.
MutexFree(m) == m = Unlocked

\* The mutex once the function of a timer has deleted its entry and goes on to
\* callback(): d.mutex.Unlock() stands between the two.
HeldIntoCallback(h) == h

HeldAfterDelete(h) == Unlocked

Add(d, key, delay, callbackName, filePath) ==
    LET stopped == IF key \in DOMAIN d.timers THEN StopTimer(d.tmr, d.timers[key]) ELSE d.tmr
        id == FreeTimer(stopped)
    IN [timers |-> MapPut(d.timers, key, id),
        tmr    |-> MapPut(stopped, id, [key |-> key, left |-> delay, st |-> "armed",
                                        name |-> callbackName, path |-> filePath])]

Stop(d, key) ==
    IF key \in DOMAIN d.timers
    THEN [timers |-> MapDel(d.timers, key), tmr |-> StopTimer(d.tmr, d.timers[key])]
    ELSE d

\* StopAll calls timer.Stop() on every timer of the map and replaces the map.
StopAll(d) ==
    LET inMap == {d.timers[key] : key \in DOMAIN d.timers}
        cancelled == {id \in inMap \cap DOMAIN d.tmr : d.tmr[id].st = "armed"}
    IN [timers |-> EmptyMap,
        tmr    |-> [id \in (DOMAIN d.tmr) \ cancelled |-> d.tmr[id]]]

\* ------------------------------------------------------------------- queue
uploadTask(profileName, filePath) == [profileName |-> profileName, filePath |-> filePath]

\* A send on the buffered channel completes only while the buffer has room.
CanSendUnbounded(q) == TRUE

CanSend(q) == Len(q) < QueueCap

\* A callback is inside Enqueue, waiting in the send on the full channel.
BlockedOnFull == ~CanSend(queue) /\ \E id \in DOMAIN tmr : tmr[id].st = "callback"

\* A send on a closed channel panics.
SendPanicsNever(isClosed) == FALSE

SendPanics(isClosed) == isClosed

EnqueueLost(q, profileName, filePath) == q

Enqueue(q, profileName, filePath) == Append(q, uploadTask(profileName, filePath))

\* The range loop of the consumer ends once the channel is closed and empty.
LoopEndsOnClose(q, isClosed) == isClosed

LoopEnds(q, isClosed) == isClosed /\ q = <<>>

\* -------------------------------------------------------------- syncignore
DotSyncignore == <<".", "s", "y", "n", "c", "i", "g", "n", "o", "r", "e">>

\* syncignore.Load returns an error.
LoadFails(contextPath) == contextPath \in UnreadableSyncignore

\* syncignore.Load: no file, no rules; a file that cannot be read, nil next to the
\* error; else its lines and ".syncignore" itself.
LoadDropsOnError(contextPath) ==
    IF LoadFails(contextPath) THEN << <<"f">> >>
    ELSE IF contextPath \in DOMAIN SyncignoreFiles
    THEN SyncignoreFiles[contextPath] \o <<DotSyncignore>>
    ELSE <<>>

Load(contextPath) ==
    IF LoadFails(contextPath) THEN <<>>
    ELSE IF contextPath \in DOMAIN SyncignoreFiles
    THEN SyncignoreFiles[contextPath] \o <<DotSyncignore>>
    ELSE <<>>

\* One pattern of ShouldIgnore, for patterns without glob metacharacters:
\* doublestar.Match(pattern, path) is then equality, and "**/" + pattern matches
\* the pattern below any number of directories.
PatternIgnores(pattern, relativePath) ==
    LET slash == <<PathSeparator>>
        glob  == <<"*", "*", "/">>
        dirPattern == IF HasSuffix(pattern, slash)
                      THEN SubSeq(pattern, 1, Len(pattern) - 1) ELSE pattern
    IN \/ pattern = relativePath
       \/ /\ ~HasPrefix(pattern, glob) /\ ~HasPrefix(pattern, slash)
          /\ (relativePath = pattern \/ HasSuffix(relativePath, slash \o pattern))
       \/ /\ HasSuffix(pattern, slash)
          /\ \/ HasPrefix(relativePath, dirPattern \o slash)
             \/ /\ ~HasPrefix(dirPattern, glob) /\ ~HasPrefix(dirPattern, slash)
                /\ HasPrefix(relativePath, glob \o dirPattern \o slash)
       \/ /\ HasPrefix(pattern, slash)
          /\ relativePath = TrimPrefix(pattern, slash)

ShouldIgnoreExact(relativePath, patterns) ==
    \E i \in 1..Len(patterns) : patterns[i] = relativePath

ShouldIgnore(relativePath, patterns) ==
    \E i \in 1..Len(patterns) : PatternIgnores(patterns[i], relativePath)

\* ---------------------------------------------------------------- notifier
NotifierState(sc, lt, ec) ==
    [successCount |-> sc, lastNotifyTime |-> lt, errorCount |-> ec,
     note |-> [kind |-> "none"]]

NotifySuccess(n, profileName, relPath) ==
    LET count  == n.successCount[profileName] + 1
        exists == n.lastNotifyTime[profileName] # -1
        timeSinceLastNotify == n.lastNotifyTime[profileName]
        first  == ~exists \/ count = 1
        shouldNotify == \/ first
                        \/ count >= BatchThreshold
                        \/ timeSinceLastNotify >= BatchWindowMs
    IN [successCount   |-> [n.successCount EXCEPT
                               ![profileName] = IF shouldNotify THEN 0 ELSE count],
        lastNotifyTime |-> [n.lastNotifyTime EXCEPT
                               ![profileName] = IF shouldNotify THEN 0 ELSE @],
        errorCount     |-> n.errorCount,
        note |-> [kind |-> "success", profile |-> profileName, emitted |-> shouldNotify,
                  message |-> IF first THEN "file" ELSE "count", count |-> count]]

ShouldNotifyErrorEveryFifth(count) == count = 1 \/ count % 5 = 0

ShouldNotifyError(count) ==
    \/ count = 1
    \/ count <= 10 /\ count % 5 = 0
    \/ count > 10 /\ count % 10 = 0

NotifyError(n, profileName, relPath, err) ==
    LET count == n.errorCount[profileName] + 1
    IN [n EXCEPT !.errorCount[profileName] = count,
                 !.note = [kind |-> "error", profile |-> profileName,
                           emitted |-> ShouldNotifyError(count),
                           message |-> IF count = 1 THEN "first" ELSE "count",
                           count |-> count, err |-> err]]

ResetErrorCount(n, profileName) == [n EXCEPT !.errorCount[profileName] = 0]

\* The callbacks Daemon passes to UploadQueue.Start.
OnSuccessKeepsErrorCount(n, profileName, relPath) ==
    NotifySuccess(n, profileName, relPath)

OnSuccess(n, profileName, relPath) ==
    NotifySuccess(ResetErrorCount(n, profileName), profileName, relPath)

OnError(n, profileName, relPath, err, failCount) ==
    NotifyError(n, profileName, relPath, err)

\* ---------------------------------------------------------------- consumer
\* UploadQueue.Start starts one goroutine that ranges over the channel.
ConsumersPool == {1, 2}

Consumers == {1}

Errors == {"e1", "e2"}

Idle == [pc |-> "recv", profileName |-> <<>>, filePath |-> <<>>, relPath |-> <<>>,
         attempt |-> 0, lastErr |-> "nil", left |-> 0, slept |-> <<>>]

\* processUpload up to the retry loop: profile lookup, containment, .syncignore.
ResolveAnywhere(reg, task) ==
    IF task.profileName \notin DOMAIN reg
    THEN [ok |-> FALSE, why |-> "no profile", relPath |-> <<>>]
    ELSE [ok |-> TRUE, why |-> "", relPath |-> Base(Abs(task.filePath))]

Resolve(reg, task) ==
    IF task.profileName \notin DOMAIN reg
    THEN [ok |-> FALSE, why |-> "no profile", relPath |-> <<>>]
    ELSE LET absFile    == Abs(task.filePath)
             absContext == Abs(reg[task.profileName].Context)
             inside     == HasPrefix(absFile, absContext \o <<PathSeparator>>)
             relPath    == IF inside
                           THEN TrimPrefix(absFile, absContext \o <<PathSeparator>>)
                           ELSE Base(absFile)
         IN IF ~inside /\ absFile # absContext
            THEN [ok |-> FALSE, why |-> "outside context", relPath |-> <<>>]
            ELSE IF ShouldIgnore(relPath, Load(absContext))
                 THEN [ok |-> FALSE, why |-> "ignored", relPath |-> relPath]
                 ELSE [ok |-> TRUE, why |-> "", relPath |-> relPath]

\* After a failed attempt: wait and try again, or give up.
RetryAfterOnceMore(attempt) == attempt < MaxRetries

RetryAfter(attempt) == attempt < MaxRetries - 1

\* ------------------------------------------------------------------ reload
ReloadState(reg, w) == [reg |-> reg, w |-> w]

\* The orders in which a Go range statement may visit the keys of a map.
Orders(S) == {o \in [1..Cardinality(S) -> S] : \A i, j \in DOMAIN o : i # j => o[i] # o[j]}

\* handleConfigReload after config.Load, at its first call of Unwatch or Watch.
StartReload(newProfiles, reg, order1, order2) ==
    Advance([NoCall EXCEPT !.cfg = newProfiles, !.old = order1, !.new = order2], reg)

\* handleConfigReload run from start to end with no other goroutine between.
handleConfigReload(fs, r, file, order1, order2) ==
    LET cfg == LoadConfig(file)
    IN IF cfg.err THEN r
       ELSE LET s == RunCalls(fs, CallState(StartReload(cfg.Profiles, r.reg, order1,
                                                        order2), r.reg, r.w))
            IN [reg |-> s.reg, w |-> Ok(s.w)]

\* ------------------------------------------------------------------ daemon
\* The loop of Daemon that watches every profile with autoSync; count: the calls
\* of Watch that returned nil (watchedCount).
RECURSIVE WatchEach(_, _, _, _)
WatchEach(fs, d, names, cfg) ==
    IF names = {} THEN d
    ELSE LET name == CHOOSE n \in names : TRUE
             w == Watch(fs, d.w, name, cfg[name])
             next == IF ~cfg[name].AutoSync \/ cfg[name].Context = <<>>
                     THEN d
                     ELSE [w |-> Ok(w), count |-> IF w.err THEN d.count ELSE d.count + 1]
         IN WatchEach(fs, next, names \ {name}, cfg)

DaemonWatcher(fs, cfg) ==
    WatchEach(fs, [w |-> WatcherState(EmptyMap, EmptyMap, {}), count |-> 0],
              DOMAIN cfg, cfg)

\* ----------------------------------------------------------------- history
Files == {f \in DOMAIN InitFs : InitFs[f] = "file"}

\* Registry and watcher as handleConfigReload (kinds "reload"), or a call made on
\* the watcher, found them, kept while it runs.
NoBegun == [reg |-> EmptyMap, w |-> WatcherState(EmptyMap, EmptyMap, {})]

\* kinds: the histories a specification records ("burst", "window").
InitHist(kinds) ==
    [kinds    |-> kinds,
     nEvents  |-> 0,
     nReloads |-> 0,
     burst    |-> [f \in Files |-> [n |-> 0, adds |-> 0, ok |-> TRUE, since |-> 0]],
     enqCount |-> [k \in Names \X Files |-> 0],
     done     |-> [cb |-> "init"],
     note     |-> [kind |-> "none"],
     errRun   |-> [p \in Names |-> 0],
     win      |-> [p \in Names |-> [age |-> 0, calls |-> 0, notes |-> 0, aggs |-> 0]],
     lastRes  |-> "none",
     attempts |-> 0,
     cbs      |-> 0,
     quiet    |-> {},
     atStop   |-> <<>>,
     after    |-> <<>>,
     flight   |-> "none",
     fire     |-> <<>>,
     enq      |-> <<>>,
     deq      |-> <<>>,
     cancelled |-> {},
     loopFull |-> FALSE,
     fresh    |-> {},
     call     |-> [op |-> "none", seq |-> 0],
     begun    |-> NoBegun,
     seen     |-> {},
     underBlock |-> {}]

\* A create/write event for a file arrives: does it continue a burst in which every
\* event came less than the debounce delay after the one before?
BurstArrival(b, wp, filePath) ==
    [n     |-> Min(b.n + 1, MaxEvents + 1),
     adds  |-> b.adds,
     ok    |-> /\ b.ok
               /\ b.n = 0 \/ \A name \in findMatchingProfiles(wp, filePath) :
                                  b.since < DelayOf(wp[name]),
     since |-> 0]

\* handleEvent passes the event to Debouncer.Add, name by name: does the key still
\* have a timer whose function has not run, so that the event falls in the burst
\* of the one before?  last: it is the last call for the event.
BurstAdd(b, t, key, last) ==
    [b EXCEPT !.adds = IF last THEN Min(@ + 1, MaxEvents + 1) ELSE @,
              !.ok = /\ @
                     /\ b.adds = 0 \/ \E id \in DOMAIN t :
                                         t[id].key = key /\ t[id].st \in {"armed", "fired"}]

\* handleEvent has scheduled the timer of one name.  kinds "load": has it done so
\* with the queue full and the consumer inside a transfer or a retry delay, as
\* they still are?  kinds "cancel": a key that is added again is no longer a
\* cancelled one.
HistAdd(h, filePath, name, last) ==
    LET key == DebounceKey(name, filePath)
    IN [h EXCEPT
          !.burst = IF "burst" \in h.kinds
                    THEN [@ EXCEPT ![filePath] = BurstAdd(@, tmr, key, last)] ELSE @,
          !.loopFull = /\ "load" \in h.kinds
                          /\ Len(queue) = QueueCap
                          /\ \E c \in DOMAIN cons : cons[c].pc \in {"push", "sleep"},
          !.cancelled = {id \in @ : id \in DOMAIN tmr /\ tmr[id].key # key}]

\* The calls of NotifySuccess for one profile since the first call of the current
\* window: a window ends when it is one batch window old or holds BatchThreshold calls.
WindowCall(w, note) ==
    LET fresh == w.calls = 0 \/ w.calls >= BatchThreshold \/ w.age >= BatchWindowMs
        e == IF note.emitted THEN 1 ELSE 0
        a == IF note.emitted /\ note.message = "count" THEN 1 ELSE 0
    IN IF fresh THEN [age |-> 0, calls |-> 1, notes |-> e, aggs |-> a]
       ELSE [age |-> w.age, calls |-> w.calls + 1, notes |-> w.notes + e,
             aggs |-> w.aggs + a]

HistCallback(h, n, kind, profileName, summary) ==
    [h EXCEPT !.done = summary,
              !.flight = IF @ = "pending" THEN "done" ELSE @,
              !.note = n.note,
              !.errRun[profileName] = IF kind = "success" THEN 0 ELSE @ + 1,
              !.win[profileName] = IF kind = "success" /\ "window" \in h.kinds
                                   THEN WindowCall(@, n.note) ELSE @]

\* kinds "order": the timers that have expired and not yet called Enqueue, in the
\* order of their expiry, and the tasks in the order of their entering and leaving
\* the queue.  kinds "shutdown": the tasks taken from the queue after Stop.
RemoveId(seq, id) == SelectSeq(seq, LAMBDA x : x # id)

HistExpire(h, id) ==
    IF "order" \in h.kinds THEN [h EXCEPT !.fire = Append(@, id)] ELSE h

HistEnqueue(h, id, task) ==
    [h EXCEPT
        !.enqCount[<<task.profileName, task.filePath>>] =
            IF "burst" \in h.kinds THEN Min(@ + 1, MaxEvents + 1) ELSE @,
        !.fire = RemoveId(@, id),
        !.enq = IF "order" \in h.kinds THEN Append(@, task) ELSE @,
        !.cancelled = @ \ {id},
        !.loopFull = FALSE]

HistDequeue(h, task) ==
    [h EXCEPT
        !.deq = IF "order" \in h.kinds THEN Append(@, task) ELSE @,
        !.after = IF "shutdown" \in h.kinds /\ closed THEN Append(@, task) ELSE @,
        !.loopFull = FALSE]

\* What processUpload did with a task: the callback it invoked and with what.
Summary(k, tries, cb, err, failCount) ==
    [cb |-> cb, profileName |-> k.profileName, filePath |-> k.filePath,
     relPath |-> k.relPath, tries |-> tries, slept |-> k.slept,
     err |-> err, failCount |-> failCount]

\* -------------------------------------------------------------------- Init
\* What Daemon finds outside the file system and config.json: deps: lftp and
\* notify-send are installed; inotify: fsnotify.NewWatcher succeeds.  Here both.
OkEnv == [deps |-> TRUE, inotify |-> TRUE]

\* Daemon from its start to w.Start(): deps.CheckRequired, config.Load,
\* watcher.New, the registry, the watch loop.  Daemon returns an error, and the
\* process ends, when one of the first three fails or when no call of Watch
\* returned nil.
DaemonStart(fs, file, env) ==
    LET cfg  == LoadConfig(file)
        down == [up |-> FALSE, reg |-> EmptyMap, w |-> WatcherState(EmptyMap, EmptyMap, {})]
    IN IF ~env.deps \/ cfg.err \/ ~env.inotify THEN down
       ELSE LET d == DaemonWatcher(fs, cfg.Profiles)
            IN IF d.count = 0 THEN down
               ELSE [up |-> TRUE, reg |-> cfg.Profiles, w |-> d.w]

\* The state in which Daemon has started, or has returned its error, on the file
\* system fs with the config.json file in the environment env.
InitDaemon(fs, file, env, kinds) ==
    LET d == DaemonStart(fs, file, env)
    IN /\ fsys = fs
       /\ cfgFile = file
       /\ cfgPending = FALSE
       /\ rl = NoCall
       /\ profiles = d.reg
       /\ wprofiles = d.w.profiles
       /\ wcallbacks = d.w.callbacks
       /\ subs = d.w.subs
       /\ events = <<>>
       /\ timers = EmptyMap
       /\ tmr = EmptyMap
       /\ mutex = Unlocked
       /\ queue = <<>>
       /\ cons = [c \in Consumers |-> Idle]
       /\ successCount = [p \in Names |-> 0]
       /\ lastNotifyTime = [p \in Names |-> -1]
       /\ errorCount = [p \in Names |-> 0]
       /\ closed = FALSE
       /\ proc = IF d.up THEN "running" ELSE "exited"
       /\ profilesMu = "unlocked"
       /\ hist = InitHist(kinds)

InitStart(file, kinds) == InitDaemon(InitFs, file, OkEnv, kinds)

\* The same for a config.json with which Daemon starts on the file system fs.
InitOn(fs, file, kinds) ==
    /\ DaemonStart(fs, file, OkEnv).up
    /\ InitDaemon(fs, file, OkEnv, kinds)

\* The same on the file system InitFs.
InitWith(file, kinds) == InitOn(InitFs, file, kinds)

\* ----------------------------------------------------------------- actions
\* The kernel reports an operation on a path whose directory is subscribed.
FsEvent(path, op) ==
    /\ Watching
    /\ Len(events) < MaxChan
    /\ Dir(path) \in subs
    /\ events' = Append(events, [Name |-> path, Op |-> op])
    /\ hist' = [hist EXCEPT
                  !.nEvents = Min(@ + 1, MaxEvents),
                  !.seen = IF "ops" \in hist.kinds THEN @ \cup {op} ELSE @,
                  !.burst = IF /\ "burst" \in hist.kinds
                               /\ op \in {"write", "create"} /\ path \in Files
                            THEN [@ EXCEPT ![path] = BurstArrival(@, wprofiles, path)]
                            ELSE @]
    /\ UNCHANGED <<sysVars, envVars, profiles, watchVars, debVars, queue, cons, notiVars>>

\* The loop of Watcher.Start passes an event to handleEvent.
StartHandlesAll(op) == TRUE

StartHandles(op) == op \in {"write", "create"}

\* handleEvent on a directory: a created directory is added to the fsnotify watcher.
AddOnCreateNever(fs, sb, event) == sb

AddOnCreate(fs, sb, event) ==
    IF event.Name \in DOMAIN fs /\ fs[event.Name] = "dir" /\ event.Op = "create"
    THEN sb \cup {event.Name} ELSE sb

\* The event stays at the head of events while handleEvent handles it: first with
\* seen, the names whose place in w.profiles the range of findMatchingProfiles has
\* passed, and matches, what it has appended; then with matched, the names still
\* to handle, and cur, the name being handled with what the read of w.profiles
\* gave for it (found, delay) and, once read is true, what the read of w.callbacks
\* gave (callback).
NilCallback == <<>>

NoCur == [name |-> <<>>, found |-> FALSE, delay |-> 0, read |-> FALSE,
          callback |-> NilCallback]

Ranging == events # <<>> /\ "seen" \in DOMAIN Head(events)

Handling == events # <<>> /\ "matched" \in DOMAIN Head(events)

\* The event in the hand of handleEvent once findMatchingProfiles has returned.
Matched(event, matched) ==
    [Name |-> event.Name, Op |-> event.Op, matched |-> matched, cur |-> NoCur]

\* The loop of Watcher.Start with handleEvent, where no other goroutine writes the
\* maps of the watcher: one step takes an event and handles it up to the return
\* of its first call of Debouncer.Add, and each further matched name is one more
\* step, from the Lock of its call of Add to the return.
LoopEvent ==
    /\ events # <<>> /\ ~Ranging
    /\ IF Handling THEN Alive ELSE Watching
    /\ LET event == Head(events)
           filePath == event.Name
           acted == StartHandles(event.Op) /\ filePath \in DOMAIN fsys
           matched == IF Handling THEN event.matched
                      ELSE IF acted /\ fsys[filePath] = "file"
                      THEN findMatchingProfiles(wprofiles, filePath) ELSE {}
       IN /\ subs' = IF ~Handling /\ StartHandles(event.Op)
                     THEN AddOnCreate(fsys, subs, event) ELSE subs
          /\ IF matched = {}
             THEN /\ events' = Tail(events)
                  /\ UNCHANGED <<debVars, hist>>
             ELSE \E profileName \in matched :
                     LET d == Add(DebouncerState(timers, tmr),
                                  DebounceKey(profileName, filePath),
                                  DelayOf(wprofiles[profileName]),
                                  wcallbacks[profileName], filePath)
                         rest == matched \ {profileName}
                     IN /\ MutexFree(mutex)
                        /\ Cardinality(DOMAIN d.tmr) <= MaxTimers
                        /\ events' = IF rest = {} THEN Tail(events)
                                     ELSE <<Matched(event, rest)>> \o Tail(events)
                        /\ timers' = d.timers
                        /\ tmr' = d.tmr
                        /\ mutex' = mutex
                        /\ hist' = HistAdd(hist, filePath, profileName, rest = {})
    /\ UNCHANGED <<sysVars, envVars, profiles, wprofiles, wcallbacks, queue, cons, notiVars>>

\* The same statement by statement, where the config goroutine calls Watch and
\* Unwatch next to the event loop (the watcher has no lock).  A read of a map that
\* the other goroutine is about to write runs concurrently with the write: the Go
\* runtime either detects it and ends the process, or the read goes through.
\* The loop takes an event; handleEvent on a regular file calls
\* findMatchingProfiles, which begins its range over w.profiles.
LoopMatch ==
    /\ Watching
    /\ events # <<>> /\ ~Handling /\ ~Ranging
    /\ LET event == Head(events)
           regular == /\ StartHandles(event.Op)
                      /\ event.Name \in DOMAIN fsys /\ fsys[event.Name] = "file"
       IN /\ events' = IF regular
                       THEN <<[Name |-> event.Name, Op |-> event.Op, seen |-> {},
                               matches |-> {}]>> \o Tail(events)
                       ELSE Tail(events)
          /\ subs' = IF StartHandles(event.Op) THEN AddOnCreate(fsys, subs, event)
                     ELSE subs
    /\ UNCHANGED <<sysVars, envVars, profiles, wprofiles, wcallbacks, debVars, queue, cons,
                   notiVars, hist>>

\* The range of findMatchingProfiles goes one entry on: it passes the place of one
\* more name and, if w.profiles holds the name at that moment, reads its profile
\* and appends a match when the context holds the file.  An entry deleted before
\* the range reaches it is not produced, one stored before the range reaches its
\* place is.  With the last place passed, the deepest matches are the result.
LoopRange ==
    /\ Alive
    /\ Ranging
    /\ \/ /\ WritesProfiles(fsys, rl)
          /\ proc' = "panic"
          /\ UNCHANGED <<closed, profilesMu, events>>
       \/ /\ \E name \in Names \ Head(events).seen :
               LET event == Head(events)
                   seen == event.seen \cup {name}
                   matches == IF name \in Matches(wprofiles, event.Name)
                              THEN event.matches \cup {Match(name, wprofiles[name])}
                              ELSE event.matches
                   matched == DeepestMatches(matches)
               IN events' = IF seen # Names
                            THEN <<[event EXCEPT !.seen = seen, !.matches = matches]>>
                                 \o Tail(events)
                            ELSE IF matched = {} THEN Tail(events)
                            ELSE <<Matched(event, matched)>> \o Tail(events)
          /\ UNCHANGED sysVars
    /\ UNCHANGED <<envVars, profiles, watchVars, debVars, queue, cons, notiVars, hist>>

\* handleEvent goes to the next matched name and reads w.profiles[profileName].
LoopLookup ==
    /\ Alive
    /\ Handling /\ Head(events).cur = NoCur
    /\ \/ /\ WritesProfiles(fsys, rl)
          /\ proc' = "panic"
          /\ UNCHANGED <<closed, profilesMu, events>>
       \/ /\ \E name \in Head(events).matched :
               LET found == name \in DOMAIN wprofiles
                   cur == [NoCur EXCEPT
                             !.name = name, !.found = found,
                             !.delay = IF found THEN DelayOf(wprofiles[name]) ELSE 0]
               IN events' = <<[Head(events) EXCEPT !.matched = @ \ {name},
                                                   !.cur = cur]>> \o Tail(events)
          /\ UNCHANGED sysVars
    /\ UNCHANGED <<envVars, profiles, watchVars, debVars, queue, cons, notiVars, hist>>

\* handleEvent reads w.callbacks[profileName] and then profile.AutoSyncDebounce,
\* which panics when the profile read was nil.
LoopCallback ==
    /\ Alive
    /\ Handling /\ Head(events).cur # NoCur /\ ~Head(events).cur.read
    /\ LET cur == Head(events).cur
           callback == IF cur.name \in DOMAIN wcallbacks THEN wcallbacks[cur.name]
                       ELSE NilCallback
       IN \/ /\ WritesCallbacks(rl) \/ ~cur.found
             /\ proc' = "panic"
             /\ UNCHANGED <<closed, profilesMu, events>>
          \/ /\ cur.found
             /\ events' = <<[Head(events) EXCEPT !.cur.read = TRUE,
                                                 !.cur.callback = callback]>>
                           \o Tail(events)
             /\ UNCHANGED sysVars
    /\ UNCHANGED <<envVars, profiles, watchVars, debVars, queue, cons, notiVars, hist>>

\* handleEvent calls Debouncer.Add with the key of the name, the delay and a
\* function that calls the callback it has read.
LoopAdd ==
    /\ Alive
    /\ Handling /\ Head(events).cur.read
    /\ LET event == Head(events)
           cur == event.cur
           d == Add(DebouncerState(timers, tmr), DebounceKey(cur.name, event.Name),
                    cur.delay, cur.callback, event.Name)
       IN /\ MutexFree(mutex)
          /\ Cardinality(DOMAIN d.tmr) <= MaxTimers
          /\ events' = IF event.matched = {} THEN Tail(events)
                       ELSE <<[event EXCEPT !.cur = NoCur]>> \o Tail(events)
          /\ timers' = d.timers
          /\ tmr' = d.tmr
          /\ mutex' = mutex
          /\ hist' = HistAdd(hist, event.Name, cur.name, event.matched = {})
    /\ UNCHANGED <<sysVars, envVars, profiles, watchVars, queue, cons, notiVars>>

\* handleEvent from the event to its return.
Loop == LoopMatch \/ LoopRange \/ LoopLookup \/ LoopCallback \/ LoopAdd

\* Time passes.
Tick(ms) ==
    /\ tmr' = [id \in DOMAIN tmr |->
                 IF tmr[id].st = "armed"
                 THEN [tmr[id] EXCEPT !.left = Max(0, @ - ms)] ELSE tmr[id]]
    /\ cons' = [c \in Consumers |->
                  IF cons[c].pc = "sleep"
                  THEN [cons[c] EXCEPT !.left = Max(0, @ - ms)] ELSE cons[c]]
    /\ lastNotifyTime' = [p \in Names |->
                            IF lastNotifyTime[p] = -1 THEN -1
                            ELSE Min(lastNotifyTime[p] + ms, BatchWindowMs)]
    /\ hist' = [hist EXCEPT
                  !.burst = [f \in Files |->
                               IF @[f].n = 0 THEN @[f]
                               ELSE [@[f] EXCEPT !.since = Min(@ + ms, DefaultDebounceMs)]],
                  !.win = [p \in Names |->
                             IF @[p].calls = 0 THEN @[p]
                             ELSE [@[p] EXCEPT !.age = Min(@ + ms, BatchWindowMs)]]]
    /\ UNCHANGED <<sysVars, envVars, profiles, watchVars, events, timers, mutex, queue,
                   successCount, errorCount>>

\* The runtime finds the timer expired and starts its function in a new goroutine.
TimerExpire(id) ==
    /\ Alive
    /\ tmr[id].st = "armed"
    /\ tmr[id].left = 0
    /\ tmr' = [tmr EXCEPT ![id].st = "fired"]
    /\ hist' = HistExpire(hist, id)
    /\ UNCHANGED <<sysVars, envVars, profiles, watchVars, events, timers, mutex, queue,
                   cons, notiVars>>

\* The timer function takes the mutex, removes the entry of its key and releases
\* the mutex.
TimerFunc(id) ==
    /\ Alive
    /\ tmr[id].st = "fired"
    /\ MutexFree(mutex)
    /\ timers' = IF tmr[id].key \in DOMAIN timers THEN MapDel(timers, tmr[id].key)
                 ELSE timers
    /\ tmr' = [tmr EXCEPT ![id].st = "callback"]
    /\ mutex' = mutex
    /\ UNCHANGED <<sysVars, envVars, profiles, watchVars, events, queue, cons, notiVars,
                   hist>>

\* The timer function calls the callback, which calls Enqueue: the send completes
\* when the buffer has room, and panics when the channel is closed.  The call of a
\* callback that handleEvent read as nil panics.
TimerCallback(id) ==
    /\ Alive
    /\ tmr[id].st = "callback"
    /\ IF tmr[id].name = NilCallback \/ SendPanics(closed)
       THEN /\ proc' = "panic"
            /\ UNCHANGED <<closed, profilesMu, queue, tmr, hist>>
       ELSE /\ CanSend(queue)
            /\ queue' = Enqueue(queue, tmr[id].name, tmr[id].path)
            /\ tmr' = MapDel(tmr, id)
            /\ hist' = HistEnqueue(hist, id, uploadTask(tmr[id].name, tmr[id].path))
            /\ UNCHANGED sysVars
    /\ UNCHANGED <<envVars, profiles, watchVars, events, timers, mutex, cons, notiVars>>

\* The consumer after the checks of processUpload: it enters the retry loop with
\* the task, or has returned from processUpload and is back at the channel.
AfterChecksAlwaysPushes(r, k) == [k EXCEPT !.pc = "push"]

AfterChecks(r, k) == IF r.ok THEN [k EXCEPT !.pc = "push"] ELSE Idle

\* processUpload from the profile lookup up to the first attempt.
StartUpload(c, task, h) ==
    LET r == Resolve(profiles, task)
        k == [Idle EXCEPT !.profileName = task.profileName,
                          !.filePath = task.filePath, !.relPath = r.relPath]
    IN /\ cons' = [cons EXCEPT ![c] = AfterChecks(r, k)]
       /\ hist' = [h EXCEPT
                     !.done = IF r.ok THEN [cb |-> "none"]
                              ELSE Summary(k, 0, r.why, "nil", 0),
                     !.lastRes = "none", !.attempts = 0, !.cbs = 0]

\* The consumer receives a task and runs processUpload up to the first attempt,
\* where no goroutine takes the write lock of the registry or writes the registry
\* (the read lock is taken and released inside the step).
Dequeue(c) ==
    /\ Alive
    /\ cons[c].pc = "recv"
    /\ queue # <<>>
    /\ profilesMu # "locked"
    /\ queue' = Tail(queue)
    /\ StartUpload(c, Head(queue), HistDequeue(hist, Head(queue)))
    /\ UNCHANGED <<sysVars, envVars, profiles, watchVars, events, debVars, notiVars>>

\* The same statement by statement, for the specifications in which the registry
\* changes or its write lock is taken: the range statement of Start receives a
\* task and calls processUpload ...
Receive(c) ==
    /\ Alive
    /\ cons[c].pc = "recv"
    /\ queue # <<>>
    /\ queue' = Tail(queue)
    /\ cons' = [cons EXCEPT ![c] = [Idle EXCEPT !.pc = "rlock",
                                                !.profileName = Head(queue).profileName,
                                                !.filePath = Head(queue).filePath]]
    /\ hist' = HistDequeue(hist, Head(queue))
    /\ UNCHANGED <<sysVars, envVars, profiles, watchVars, events, debVars, notiVars>>

\* ... q.profilesMu.RLock() returns: the consumer, with the task in hand, has
\* waited until no goroutine holds the write lock ...
RLock(c) ==
    /\ Alive
    /\ cons[c].pc = "rlock"
    /\ profilesMu = "unlocked"
    /\ cons' = [cons EXCEPT ![c].pc = "lookup"]
    /\ profilesMu' = "rlocked"
    /\ UNCHANGED <<closed, proc, envVars, profiles, watchVars, events, debVars, queue,
                   notiVars, hist>>

\* ... and it reads the registry, releases the lock and goes on.
Lookup(c) ==
    /\ Alive
    /\ cons[c].pc = "lookup"
    /\ StartUpload(c, uploadTask(cons[c].profileName, cons[c].filePath), hist)
    /\ profilesMu' = "unlocked"
    /\ UNCHANGED <<closed, proc, envVars, profiles, watchVars, events, debVars, queue,
                   notiVars>>

\* The read of the registry map has run concurrently with a write of it: the Go
\* runtime either detects it and ends the process ("concurrent map read and map
\* write"), or the read goes through.
LookupRace(c) ==
    /\ Alive
    /\ cons[c].pc = "race"
    /\ \/ /\ proc' = "panic"
          /\ UNCHANGED <<closed, profilesMu, cons, hist>>
       \/ /\ StartUpload(c, uploadTask(cons[c].profileName, cons[c].filePath), hist)
          /\ profilesMu' = "unlocked"
          /\ UNCHANGED <<closed, proc>>
    /\ UNCHANGED <<envVars, profiles, watchVars, events, debVars, queue, notiVars>>

\* The range over the channel ends: the consumer goroutine returns.
ConsumerExit(c) ==
    /\ Alive
    /\ cons[c].pc = "recv"
    /\ LoopEnds(queue, closed)
    /\ cons' = [cons EXCEPT ![c].pc = "done"]
    /\ UNCHANGED <<sysVars, envVars, profiles, watchVars, events, debVars, queue,
                   notiVars, hist>>

\* A callback of the consumer has run the notifier.
Notified(h, n, kind, profileName, summary) ==
    /\ successCount' = n.successCount
    /\ lastNotifyTime' = n.lastNotifyTime
    /\ errorCount' = n.errorCount
    /\ hist' = HistCallback(h, n, kind, profileName, summary)

\* lftp.PushFile returns: success, or failure followed by a wait or by giving up.
PushReturn(c, res) ==
    /\ Alive
    /\ cons[c].pc = "push"
    /\ LET k == cons[c]
           n0 == NotifierState(successCount, lastNotifyTime, errorCount)
           h0 == [hist EXCEPT !.lastRes = res, !.attempts = @ + 1]
           h1 == [h0 EXCEPT !.cbs = @ + 1]
           failed == [k EXCEPT !.lastErr = res]
       IN IF res = "ok"
          THEN /\ cons' = [cons EXCEPT ![c] = Idle]
               /\ Notified(h1, OnSuccess(n0, k.profileName, k.relPath), "success",
                           k.profileName, Summary(k, k.attempt + 1, "success", "nil", 0))
          ELSE IF RetryAfter(k.attempt)
               THEN /\ cons' = [cons EXCEPT ![c] =
                                  [failed EXCEPT !.pc = "sleep",
                                            !.left = Delays[k.attempt + 1],
                                            !.slept = Append(@, Delays[k.attempt + 1])]]
                    /\ hist' = h0
                    /\ UNCHANGED notiVars
               ELSE /\ errorCount[k.profileName] < MaxErrCount
                    /\ cons' = [cons EXCEPT ![c] = Idle]
                    /\ Notified(h1, OnError(n0, k.profileName, k.relPath, failed.lastErr,
                                            MaxRetries),
                                "error", k.profileName,
                                Summary(k, k.attempt + 1, "error", failed.lastErr,
                                        MaxRetries))
    /\ UNCHANGED <<sysVars, envVars, profiles, watchVars, events, debVars, queue>>

\* time.Sleep returns and the loop goes to its next attempt.
Wake(c) ==
    /\ Alive
    /\ cons[c].pc = "sleep"
    /\ cons[c].left = 0
    /\ cons' = [cons EXCEPT ![c].pc = "push", ![c].attempt = @ + 1]
    /\ UNCHANGED <<sysVars, envVars, profiles, watchVars, events, debVars, queue, notiVars, hist>>

\* The consumer reports an upload: the success and the error callback of Daemon.
UploadSucceeded(profileName, relPath) ==
    /\ Notified(hist, OnSuccess(NotifierState(successCount, lastNotifyTime, errorCount),
                          profileName, relPath),
                "success", profileName, hist.done)
    /\ UNCHANGED <<sysVars, envVars, profiles, watchVars, events, debVars, queue, cons>>

UploadFailed(profileName, relPath, err) ==
    /\ errorCount[profileName] < MaxErrCount
    /\ Notified(hist, OnError(NotifierState(successCount, lastNotifyTime, errorCount),
                        profileName, relPath, err, MaxRetries),
                "error", profileName, hist.done)
    /\ UNCHANGED <<sysVars, envVars, profiles, watchVars, events, debVars, queue, cons>>

\* A goroutine calls Watcher.Watch or Watcher.Unwatch next to the event loop: it
\* enters the call; its statements are steps of ConfigStep.
WatchBegin(profileName, profile) ==
    /\ Watching
    /\ rl.pc = "idle"
    /\ rl' = WatchFrame(profileName, profile)
    /\ hist' = [hist EXCEPT !.begun = [reg |-> profiles,
                                        w |-> WatcherState(wprofiles, wcallbacks, subs)]]
    /\ UNCHANGED <<sysVars, fsys, cfgFile, cfgPending, profiles, watchVars, events,
                   debVars, queue, cons, notiVars>>

UnwatchBegin(profileName) ==
    /\ Watching
    /\ rl.pc = "idle"
    /\ rl' = UnwatchFrame(profileName)
    /\ hist' = [hist EXCEPT !.begun = [reg |-> profiles,
                                        w |-> WatcherState(wprofiles, wcallbacks, subs)]]
    /\ UNCHANGED <<sysVars, fsys, cfgFile, cfgPending, profiles, watchVars, events,
                   debVars, queue, cons, notiVars>>

\* A process creates a directory or a regular file; the kernel reports the create
\* when the parent directory is subscribed.
Create(path, kind) ==
    /\ Watching
    /\ path \notin DOMAIN fsys
    /\ Dir(path) \in DOMAIN fsys /\ fsys[Dir(path)] = "dir"
    /\ Dir(path) \in subs => Len(events) < MaxChan
    /\ fsys' = MapPut(fsys, path, kind)
    /\ events' = IF Dir(path) \in subs
                 THEN Append(events, [Name |-> path, Op |-> "create"]) ELSE events
    /\ UNCHANGED <<sysVars, cfgFile, cfgPending, rl, profiles, watchVars, debVars, queue,
                   cons, notiVars, hist>>

\* The user, or an editor, writes config.json: each write gives a write event,
\* whether or not the content has changed; the events not yet read by the config
\* goroutine wait as one.
EditConfig(cfg) ==
    /\ ConfigWatching
    /\ cfgFile' = cfg
    /\ cfgPending' = TRUE
    /\ hist' = [hist EXCEPT !.nReloads = Min(@ + 1, MaxReloads)]
    /\ UNCHANGED <<sysVars, fsys, rl, profiles, watchVars, events, debVars, queue, cons,
                   notiVars>>

\* The config goroutine reads the write event and runs handleConfigReload up to
\* its first call of Unwatch or Watch: config.Load, newProfiles, and the profiles
\* for which the loops have nothing to call.
Reload ==
    /\ ConfigWatching
    /\ cfgPending
    /\ rl.pc = "idle"
    /\ cfgPending' = FALSE
    /\ LET cfg == LoadConfig(cfgFile)
       IN IF cfg.err
          THEN rl' = rl /\ hist' = hist
          ELSE /\ \E order1 \in Orders(DOMAIN profiles),
                     order2 \in Orders(DOMAIN cfg.Profiles) :
                    rl' = StartReload(cfg.Profiles, profiles, order1, order2)
               /\ hist' = IF "reload" \in hist.kinds
                          THEN [hist EXCEPT
                                  !.fresh = DOMAIN cfgFile \ DOMAIN profiles,
                                  !.begun = IF rl'.pc = "idle" THEN NoBegun
                                            ELSE [reg |-> profiles,
                                                  w |-> WatcherState(wprofiles, wcallbacks,
                                                                     subs)]]
                          ELSE hist
    /\ UNCHANGED <<sysVars, fsys, cfgFile, profiles, watchVars, events, debVars, queue,
                   cons, notiVars>>

\* The config goroutine executes its next statement on the registry or on the
\* watcher.  It takes no lock: a write to the registry can fall into a read of the
\* consumer.  kinds: the call made on the watcher that returns, and the profile
\* whose watch the reload has ended because its autoSync is off.
ConfigStep ==
    /\ Alive
    /\ rl.pc # "idle"
    /\ LET s == CallStep(fsys, Watching,
                         CallState(rl, profiles, WatcherState(wprofiles, wcallbacks, subs)))
           running == {tmr[id].name : id \in {i \in DOMAIN tmr : tmr[i].st # "armed"}}
           off == IF /\ rl.pc = "del" /\ rl.name \in DOMAIN rl.cfg
                     /\ rl.name \notin DOMAIN wprofiles /\ rl.name \notin running
                  THEN {rl.name} ELSE {}
       IN /\ rl' = s.rl
          /\ profiles' = s.reg
          /\ wprofiles' = s.w.profiles
          /\ wcallbacks' = s.w.callbacks
          /\ subs' = s.w.subs
          /\ cons' = [c \in DOMAIN cons |->
                        IF cons[c].pc = "lookup" /\ s.reg # profiles
                        THEN [cons[c] EXCEPT !.pc = "race"] ELSE cons[c]]
          /\ hist' = [hist EXCEPT
                        !.quiet = (@ \cup off) \ DOMAIN s.w.profiles,
                        !.begun = IF s.rl.pc = "idle" THEN NoBegun ELSE @,
                        !.call = IF rl.ret = "api" /\ s.rl.pc = "idle"
                                 THEN [op |-> IF rl.pc \in {"U1", "U3"} THEN "Unwatch"
                                              ELSE "Watch",
                                       seq |-> 1 - hist.call.seq,
                                       name |-> rl.name,
                                       context |-> IF rl.pc \in {"U1", "U3"} THEN <<>>
                                                   ELSE rl.cfg[rl.name].Context,
                                       err |-> s.returned = "error"]
                                 ELSE @]
    /\ UNCHANGED <<sysVars, fsys, cfgFile, cfgPending, events, debVars, queue, notiVars>>

\* UploadQueue.LockProfiles and UnlockProfiles, which the queue exports for the
\* writer of the registry: the write lock of profilesMu.
LockProfiles ==
    /\ Alive
    /\ profilesMu = "unlocked"
    /\ profilesMu' = "locked"
    /\ UNCHANGED <<closed, proc, envVars, profiles, watchVars, events, debVars, queue,
                   cons, notiVars, hist>>

UnlockProfiles ==
    /\ Alive
    /\ profilesMu = "locked"
    /\ profilesMu' = "unlocked"
    /\ UNCHANGED <<closed, proc, envVars, profiles, watchVars, events, debVars, queue,
                   cons, notiVars, hist>>

\* Debouncer.Stop(key) and Debouncer.StopAll(), called on the debouncer directly.
DebouncerStop(key) ==
    /\ Alive
    /\ key \in DOMAIN timers
    /\ MutexFree(mutex)
    /\ LET d == Stop(DebouncerState(timers, tmr), key)
       IN /\ timers' = d.timers
          /\ tmr' = d.tmr
          /\ mutex' = mutex
          /\ hist' = [hist EXCEPT
                        !.cancelled = @ \cup ({timers[key]} \cap DOMAIN d.tmr)]
    /\ UNCHANGED <<sysVars, envVars, profiles, watchVars, events, queue, cons, notiVars>>

DebouncerStopAll ==
    /\ Alive
    /\ timers # EmptyMap
    /\ MutexFree(mutex)
    /\ LET d == StopAll(DebouncerState(timers, tmr))
       IN /\ timers' = d.timers
          /\ tmr' = d.tmr
          /\ mutex' = mutex
          /\ hist' = [hist EXCEPT
                        !.cancelled =
                          @ \cup ({timers[key] : key \in DOMAIN timers} \cap DOMAIN d.tmr)]
    /\ UNCHANGED <<sysVars, envVars, profiles, watchVars, events, queue, cons, notiVars>>

\* The debouncer statement by statement.  The goroutine h has called
\* d.mutex.Lock(): the function of an expired timer, the event loop in Add for the
\* name it handles, a caller of Stop(key), a caller of StopAll.
AtLock(h) ==
    CASE h.by = "timer"   -> h.id \in DOMAIN tmr /\ tmr[h.id].st = "fired"
      [] h.by = "Add"     -> /\ Handling /\ Head(events).cur.read
                             /\ Cardinality(DOMAIN tmr) < MaxTimers
      [] h.by = "Stop"    -> h.key \in DOMAIN timers
      [] h.by = "StopAll" -> timers # EmptyMap
      [] OTHER            -> FALSE

\* d.mutex.Lock() returns for h: no goroutine holds the mutex.
MutexLock(h) ==
    /\ Alive
    /\ AtLock(h)
    /\ MutexFree(mutex)
    /\ mutex' = h
    /\ UNCHANGED <<sysVars, envVars, profiles, watchVars, events, timers, tmr, queue, cons,
                   notiVars, hist>>

\* The goroutine that holds the mutex runs to its d.mutex.Unlock(): the function
\* of a timer deletes the entry of its key, unlocks and goes on to callback(); Add,
\* Stop and StopAll run to their return, where the deferred Unlock runs.
\* hist.underBlock: the calls that returned while a callback was blocked in Enqueue.
MutexUnlock ==
    /\ Alive
    /\ ~MutexFree(mutex)
    /\ mutex.by = "timer" => mutex.id \in DOMAIN tmr /\ tmr[mutex.id].st = "fired"
    /\ LET d0 == DebouncerState(timers, tmr)
           event == Head(events)
           d == CASE mutex.by = "timer" ->
                       [timers |-> IF tmr[mutex.id].key \in DOMAIN timers
                                   THEN MapDel(timers, tmr[mutex.id].key) ELSE timers,
                        tmr    |-> [tmr EXCEPT ![mutex.id].st = "callback"]]
                  [] mutex.by = "Add" ->
                       Add(d0, DebounceKey(event.cur.name, event.Name), event.cur.delay,
                           event.cur.callback, event.Name)
                  [] mutex.by = "Stop" -> Stop(d0, mutex.key)
                  [] mutex.by = "StopAll" -> StopAll(d0)
       IN /\ timers' = d.timers
          /\ tmr' = d.tmr
          /\ mutex' = IF mutex.by = "timer" THEN HeldAfterDelete(mutex) ELSE Unlocked
          /\ events' = IF mutex.by # "Add" THEN events
                       ELSE IF event.matched = {} THEN Tail(events)
                       ELSE <<[event EXCEPT !.cur = NoCur]>> \o Tail(events)
          /\ hist' = [hist EXCEPT
                        !.underBlock = IF BlockedOnFull /\ mutex.by # "timer"
                                       THEN @ \cup {mutex.by} ELSE @]
    /\ UNCHANGED <<sysVars, envVars, profiles, watchVars, queue, cons, notiVars>>

\* Daemon receives SIGINT or SIGTERM and calls queue.Stop(), which closes the channel.
Signal ==
    /\ proc = "running"
    /\ proc' = "stopping"
    /\ closed' = TRUE
    /\ hist' = IF "shutdown" \in hist.kinds
               THEN [hist EXCEPT
                       !.atStop = queue,
                       !.flight = IF \E c \in DOMAIN cons : cons[c].pc \in {"push", "sleep"}
                                  THEN "pending" ELSE "none"]
               ELSE hist
    /\ UNCHANGED <<profilesMu, envVars, profiles, watchVars, events, debVars, queue, cons,
                   notiVars>>

\* Daemon returns nil and its deferred calls run, the last deferred first:
\* configWatcher.Close() ends the wait of the config goroutine for write events (a
\* handleConfigReload that is running goes on) ...
DaemonReturn ==
    /\ proc = "stopping"
    /\ proc' = "closing"
    /\ cfgPending' = FALSE
    /\ UNCHANGED <<closed, profilesMu, fsys, cfgFile, rl, profiles, watchVars, events,
                   debVars, queue, cons, notiVars, hist>>

\* ... then Watcher.Close(): Debouncer.StopAll() ...
WatcherStopAll ==
    /\ proc = "closing"
    /\ proc' = "stopall"
    /\ MutexFree(mutex)
    /\ LET d == StopAll(DebouncerState(timers, tmr))
       IN /\ timers' = d.timers
          /\ tmr' = d.tmr
          /\ mutex' = mutex
          /\ hist' = [hist EXCEPT
                        !.cancelled = IF "cancel" \in hist.kinds
                                      THEN @ \cup ({timers[key] : key \in DOMAIN timers}
                                                     \cap DOMAIN d.tmr)
                                      ELSE @,
                        !.fire = SelectSeq(@, LAMBDA id : id \in DOMAIN d.tmr)]
    /\ UNCHANGED <<closed, profilesMu, envVars, profiles, watchVars, events, queue, cons,
                   notiVars>>

\* ... and fsWatcher.Close(), which ends the event loop: the events not yet taken
\* are lost, and a handleEvent that is running goes on.
WatcherClose ==
    /\ proc = "stopall"
    /\ proc' = "returned"
    /\ events' = IF Handling \/ Ranging THEN <<Head(events)>> ELSE <<>>
    /\ subs' = {}
    /\ UNCHANGED <<closed, profilesMu, envVars, profiles, wprofiles, wcallbacks, debVars,
                   queue, cons, notiVars, hist>>

\* The caller of Daemon returns from main: the process and its goroutines end.
Exit ==
    /\ proc = "returned"
    /\ proc' = "exited"
    /\ UNCHANGED <<closed, profilesMu, envVars, profiles, watchVars, events, debVars,
                   queue, cons, notiVars, hist>>

\* ---------------------------------------------------------- specifications
InitCfg == (NameP :> Profile(DirA, TRUE, 0)) @@ (NameQ :> Profile(DirAB, TRUE, 1000))

Results == {"ok"} \cup Errors

Timer ==
    \E id \in DOMAIN tmr : TimerExpire(id) \/ TimerFunc(id) \/ TimerCallback(id)

\* The pipeline from a file event to the callback of the consumer.
Init == InitWith(InitCfg, {})

Next ==
    \/ \E path \in {FileAF, FileABG} :
          hist.nEvents < MaxEvents /\ FsEvent(path, "write")
    \/ LoopEvent
    \/ Tick(BatchWindowMs)
    \/ Timer
    \/ \E c \in Consumers : Dequeue(c) \/ Wake(c) \/ \E res \in Results : PushReturn(c, res)

Spec == Init /\ [][Next]_vars

\* Watcher, debouncer and reload, in steps of one second.
DebounceConfigs == {InitCfg, [InitCfg EXCEPT ![NameP].AutoSync = FALSE]}

InitDebounce == InitWith(InitCfg, {"burst"})

NextDebounce ==
    \/ \E path \in {FileAF, FileABG} :
          hist.nEvents < MaxEvents /\ FsEvent(path, "write")
    \/ Loop
    \/ Tick(1000)
    \/ Timer
    \/ \E cfg \in DebounceConfigs : hist.nReloads < MaxReloads /\ EditConfig(cfg)
    \/ Reload
    \/ ConfigStep

SpecDebounce == InitDebounce /\ [][NextDebounce]_vars

\* The notifier under the callbacks of the consumer, in steps of ten seconds.
InitNotifier == InitWith(InitCfg, {"window"})

NextNotifier ==
    \/ \E profileName \in Names : UploadSucceeded(profileName, <<"f">>)
    \/ \E err \in Errors : UploadFailed(NameP, <<"f">>, err)
    \/ Tick(10000)

SpecNotifier == InitNotifier /\ [][NextNotifier]_vars

\* The event loop of the watcher over every pair of registrations, with events of
\* every kind, before any timer expires.
MatchContexts == {DirA, DirAB, DirC, DirA \o <<PathSeparator>>, FileAF}

MatchConfigs ==
    {(NameP :> Profile(c1, a1, 0)) @@ (NameQ :> Profile(c2, a2, 1000)) :
        c1 \in MatchContexts, c2 \in MatchContexts, a1 \in BOOLEAN, a2 \in BOOLEAN}

MatchPaths == {FileAF, FileABG, FileCF, LinkAL, DirAB, FileGone}

InitMatch == \E cfg \in MatchConfigs : InitWith(cfg, {})

NextMatch ==
    \/ \E path \in MatchPaths, op \in {"write", "create", "remove"} :
          hist.nEvents < MaxEvents /\ FsEvent(path, op)
    \/ LoopEvent

SpecMatch == InitMatch /\ [][NextMatch]_vars

\* One profile under sustained writes to one file, with a consumer that succeeds.
InitLoad == InitWith([InitCfg EXCEPT ![NameQ].AutoSync = FALSE], {"load"})

NextLoad ==
    \/ FsEvent(FileAF, "write")
    \/ LoopEvent
    \/ Tick(BatchWindowMs)
    \/ Timer
    \/ \E c \in Consumers : Dequeue(c) \/ PushReturn(c, "ok")

SpecLoad == InitLoad /\ [][NextLoad]_vars

\* The pipeline up to the queue while the consumer is inside one long transfer and
\* takes nothing, with the event loop and the debouncer statement by statement and
\* with Stop and StopAll called beside them; the file is written again when the
\* loop has taken the event of the write before.
InitMutex == InitWith([InitCfg EXCEPT ![NameQ].AutoSync = FALSE], {})

NextMutex ==
    \/ events = <<>> /\ FsEvent(FileAF, "write")
    \/ LoopMatch
    \/ LoopRange
    \/ LoopLookup
    \/ LoopCallback
    \/ MutexLock(Holder("Add", 0, <<>>))
    \/ Tick(BatchWindowMs)
    \/ \E id \in DOMAIN tmr :
          TimerExpire(id) \/ MutexLock(TimerHolder(id)) \/ TimerCallback(id)
    \/ \E key \in DOMAIN timers : MutexLock(Holder("Stop", 0, key))
    \/ MutexLock(Holder("StopAll", 0, <<>>))
    \/ MutexUnlock

SpecMutex == InitMutex /\ [][NextMutex]_vars

\* The pipeline of one profile with the shutdown of Daemon: the signal,
\* queue.Stop(), the return of Daemon with its deferred calls, and the end of the
\* process.  The event loop runs statement by statement: a handleEvent that has
\* begun goes on, and calls Debouncer.Add, after fsWatcher.Close() has returned.
InitShutdown == InitWith([InitCfg EXCEPT ![NameQ].AutoSync = FALSE], {"shutdown"})

NextShutdown ==
    \/ \E path \in {FileAF, FileABG} :
          hist.nEvents < MaxEvents /\ FsEvent(path, "write")
    \/ Loop
    \/ Tick(BatchWindowMs)
    \/ Timer
    \/ \E c \in Consumers :
          \/ Dequeue(c)
          \/ Wake(c)
          \/ \E res \in {"ok", "e1"} : PushReturn(c, res)
          \/ ConsumerExit(c)
    \/ Signal
    \/ DaemonReturn
    \/ WatcherStopAll
    \/ WatcherClose
    \/ Exit

SpecShutdown == InitShutdown /\ [][NextShutdown]_vars

\* The same up to the return of Daemon: the signal and queue.Stop() with the
\* event loop, the timers and the consumer.
NextStop ==
    \/ \E path \in {FileAF, FileABG} :
          hist.nEvents < MaxEvents /\ FsEvent(path, "write")
    \/ LoopEvent
    \/ Tick(BatchWindowMs)
    \/ Timer
    \/ \E c \in Consumers :
          \/ Dequeue(c)
          \/ Wake(c)
          \/ \E res \in {"ok", "e1"} : PushReturn(c, res)
          \/ ConsumerExit(c)
    \/ Signal

SpecStop == InitShutdown /\ [][NextStop]_vars

\* The debouncer under the event loop and the timers, with Stop and StopAll called
\* at any time, in steps of one second.
InitCancel == InitWith(InitCfg, {"cancel"})

NextCancel ==
    \/ \E path \in {FileAF, FileABG} :
          hist.nEvents < MaxEvents /\ FsEvent(path, "write")
    \/ LoopEvent
    \/ Tick(1000)
    \/ Timer
    \/ \E key \in DOMAIN timers : DebouncerStop(key)
    \/ DebouncerStopAll

SpecCancel == InitCancel /\ [][NextCancel]_vars

\* The pipeline with the consumer statement by statement and reloads that delete
\* and replace entries of the registry; a file is written when the write before it
\* has been debounced.
RegistryConfigs ==
    {InitCfg, [InitCfg EXCEPT ![NameP].AutoSync = FALSE],
     [InitCfg EXCEPT ![NameQ].Context = DirC]}

InitRegistry == InitWith(InitCfg, {})

NextRegistry ==
    \/ \E path \in {FileAF, FileABG} :
          hist.nEvents < MaxEvents /\ events = <<>> /\ tmr = EmptyMap /\ FsEvent(path, "write")
    \/ Loop
    \/ Tick(BatchWindowMs)
    \/ Timer
    \/ \E c \in Consumers :
          Receive(c) \/ RLock(c) \/ Lookup(c) \/ LookupRace(c) \/ PushReturn(c, "ok")
    \/ \E cfg \in RegistryConfigs : hist.nReloads < MaxReloads /\ EditConfig(cfg)
    \/ Reload
    \/ ConfigStep

SpecRegistry == InitRegistry /\ [][NextRegistry]_vars

\* The same pipeline without reloads and with a caller of LockProfiles and
\* UnlockProfiles, which the repository does not have: while the write lock is
\* held the consumer waits at RLock.
InitLockProfiles == InitWith(InitCfg, {})

NextLockProfiles ==
    \/ hist.nEvents < MaxEvents /\ FsEvent(FileAF, "write")
    \/ LoopEvent
    \/ Tick(BatchWindowMs)
    \/ Timer
    \/ \E c \in Consumers : Receive(c) \/ RLock(c) \/ Lookup(c) \/ PushReturn(c, "ok")
    \/ LockProfiles
    \/ UnlockProfiles

SpecLockProfiles == InitLockProfiles /\ [][NextLockProfiles]_vars

\* The consumer and handleConfigReload on the registry, for tasks of one file of
\* profile q while config.json moves the context of q away and back; the file is
\* written when the write before it has been debounced.
MovedConfigs == {InitCfg, [InitCfg EXCEPT ![NameQ].Context = DirC]}

InitMoved == InitWith(InitCfg, {})

NextMoved ==
    \/ hist.nEvents < MaxEvents /\ events = <<>> /\ tmr = EmptyMap /\ FsEvent(FileABG, "write")
    \/ Loop
    \/ Tick(BatchWindowMs)
    \/ Timer
    \/ \E c \in Consumers :
          Receive(c) \/ RLock(c) \/ Lookup(c) \/ LookupRace(c) \/ PushReturn(c, "ok")
    \/ \E cfg \in MovedConfigs : hist.nReloads < MaxReloads /\ EditConfig(cfg)
    \/ Reload
    \/ ConfigStep

SpecMoved == InitMoved /\ [][NextMoved]_vars

\* The same while config.json turns autoSync of q off, or drops q, and brings it back.
GoneConfigs == {InitCfg, [InitCfg EXCEPT ![NameQ].AutoSync = FALSE], (NameP :> InitCfg[NameP])}

InitGone == InitWith(InitCfg, {})

NextGone ==
    \/ hist.nEvents < MaxEvents /\ events = <<>> /\ tmr = EmptyMap /\ FsEvent(FileABG, "write")
    \/ Loop
    \/ Tick(BatchWindowMs)
    \/ Timer
    \/ \E c \in Consumers :
          Receive(c) \/ RLock(c) \/ Lookup(c) \/ LookupRace(c) \/ PushReturn(c, "ok")
    \/ \E cfg \in GoneConfigs : hist.nReloads < MaxReloads /\ EditConfig(cfg)
    \/ Reload
    \/ ConfigStep

SpecGone == InitGone /\ [][NextGone]_vars

\* The pipeline with timers of two keys, in steps of one second, with a record of
\* the order of expiry and of the order of entering and leaving the queue.
InitOrder == InitWith(InitCfg, {"order"})

NextOrder ==
    \/ \E path \in {FileAF, FileABG} :
          hist.nEvents < MaxEvents /\ FsEvent(path, "write")
    \/ LoopEvent
    \/ Tick(1000)
    \/ Timer
    \/ \E c \in Consumers : Dequeue(c) \/ PushReturn(c, "ok")

SpecOrder == InitOrder /\ [][NextOrder]_vars

\* The next step of the consumer goroutine inside processUpload or at the receive:
\* it takes a task, a call of lftp.PushFile returns nil or an error, or the wait
\* before the next attempt ends.
ConsumerStep(c) ==
    \/ Dequeue(c)
    \/ \E res \in {"ok", "e1"} : PushReturn(c, res)
    \/ Wake(c)

\* The pipeline while the daemon runs, with the same record and with transfers
\* that succeed or fail: time passes, every goroutine that can take a step is
\* scheduled, and every call of lftp.PushFile returns, with nil or with an error.
NextRun ==
    \/ \E path \in {FileAF, FileABG} :
          hist.nEvents < MaxEvents /\ events = <<>> /\ FsEvent(path, "write")
    \/ LoopEvent
    \/ Tick(BatchWindowMs)
    \/ Timer
    \/ \E c \in Consumers : ConsumerStep(c)

SpecRun ==
    /\ InitOrder
    /\ [][NextRun]_vars
    /\ WF_vars(Tick(BatchWindowMs))
    /\ WF_vars(Timer)
    /\ WF_vars(\E c \in Consumers : ConsumerStep(c))

\* The pipeline with one profile whose context has a .syncignore file, under
\* writes to a file that matches one of its patterns and to a file that does not.
InitIgnore == InitWith([InitCfg EXCEPT ![NameQ].AutoSync = FALSE], {})

NextIgnore ==
    \/ \E path \in {FileAF, FileABG} :
          hist.nEvents < MaxEvents /\ FsEvent(path, "write")
    \/ LoopEvent
    \/ Tick(BatchWindowMs)
    \/ Timer
    \/ \E c \in Consumers : Dequeue(c) \/ Wake(c) \/ \E res \in Results : PushReturn(c, res)

SpecIgnore == InitIgnore /\ [][NextIgnore]_vars

\* The pipeline for profile q whose context /c has a .syncignore that cannot be
\* read, with transfers that succeed or fail.
InitDegrade == InitWith([InitCfg EXCEPT ![NameQ].Context = DirC], {})

NextDegrade ==
    \/ \E path \in {FileCF, FileAF} :
          hist.nEvents < MaxEvents /\ FsEvent(path, "write")
    \/ LoopEvent
    \/ Tick(BatchWindowMs)
    \/ Timer
    \/ \E c \in Consumers :
          Dequeue(c) \/ Wake(c) \/ \E res \in {"ok", "e1"} : PushReturn(c, res)

SpecDegrade == InitDegrade /\ [][NextDegrade]_vars

\* The event loop statement by statement next to reloads that turn profile q off
\* and on.
LoopRaceConfigs == {InitCfg, [InitCfg EXCEPT ![NameQ].AutoSync = FALSE]}

InitLoopRace == InitWith(InitCfg, {})

NextLoopRace ==
    \/ \E path \in {FileAF, FileABG} :
          hist.nEvents < MaxEvents /\ FsEvent(path, "write")
    \/ Loop
    \/ Tick(BatchWindowMs)
    \/ Timer
    \/ \E cfg \in LoopRaceConfigs : hist.nReloads < MaxReloads /\ EditConfig(cfg)
    \/ Reload
    \/ ConfigStep

SpecLoopRace == InitLoopRace /\ [][NextLoopRace]_vars

\* Start-up and reload over configuration files that turn a profile off, remove
\* it, move its context to an existing or to a missing directory, or hold a
\* profile without host or without context; with the event loop.
ReloadFiles ==
    {InitCfg,
     [InitCfg EXCEPT ![NameQ].AutoSync = FALSE],
     [InitCfg EXCEPT ![NameQ].Context = DirC],
     [InitCfg EXCEPT ![NameQ].Context = FileGone],
     [InitCfg EXCEPT ![NameQ].Context = <<>>],
     [InitCfg EXCEPT ![NameP].Host = <<>>],
     [InitCfg EXCEPT ![NameP].Context = DirC, ![NameQ].Context = FileGone],
     (NameP :> InitCfg[NameP]),
     (NameP :> Profile(DirC, TRUE, 0)),
     (NameQ :> InitCfg[NameQ])}

InitReload == \E file \in ReloadFiles : InitStart(file, {"reload"})

NextReload ==
    \/ \E path \in {FileAF, FileABG, FileCF} :
          hist.nEvents < MaxEvents /\ FsEvent(path, "write")
    \/ Loop
    \/ \E file \in ReloadFiles : hist.nReloads < MaxReloads /\ EditConfig(file)
    \/ Reload
    \/ ConfigStep

SpecReload == InitReload /\ [][NextReload]_vars

\* Reloads that meet a failing Watch or Unwatch, or a new profile, next to the
\* event loop.  On the file system InitFs a Watch fails at its
\* test of existence; on the one whose directory /a/b may not be read, Watch of /a
\* and of /a/b fails after it has stored the registration.  Daemon has started or
\* has returned its error.
ReconcileFiles(fs) ==
    IF fs = InitFs
    THEN {InitCfg,
          [InitCfg EXCEPT ![NameQ].AutoSync = FALSE],
          [InitCfg EXCEPT ![NameQ].Context = FileGone],
          [InitCfg EXCEPT ![NameQ].Context = <<>>],
          [InitCfg EXCEPT ![NameP].Context = DirC, ![NameQ].Context = FileGone],
          (NameP :> InitCfg[NameP])}
    ELSE {[InitCfg EXCEPT ![NameQ].Context = DirC],
          [InitCfg EXCEPT ![NameP].Context = DirC],
          (NameP :> Profile(DirC, TRUE, 0))}

ReconcileFs == {InitFs, [InitFs EXCEPT ![DirAB] = "locked"]}

InitReconcile ==
    \E fs \in ReconcileFs : \E file \in ReconcileFiles(fs) :
       InitDaemon(fs, file, OkEnv, {"reload"})

\* The file whose writes the kernel reports: /a/b/g, and /a/f where /a/b is never
\* subscribed.
ReconcileEvents(fs) == IF fs = InitFs THEN {FileABG} ELSE {FileAF}

NextReconcile ==
    \/ \E path \in ReconcileEvents(fsys) :
          hist.nEvents < MaxEvents /\ FsEvent(path, "write")
    \/ Loop
    \/ \E file \in ReconcileFiles(fsys) : hist.nReloads < MaxReloads /\ EditConfig(file)
    \/ Reload
    \/ ConfigStep

SpecReconcile == InitReconcile /\ [][NextReconcile]_vars

\* Reloads of config.json in which a watched profile keeps its context and autoSync
\* and gets another remote path and debounce interval; in the last one the other
\* profile moves as well, so that the reload has calls to make.
RefreshFiles ==
    {InitCfg,
     [InitCfg EXCEPT ![NameQ].RemotePath = <<"/", "r">>, ![NameQ].AutoSyncDebounce = 500],
     [InitCfg EXCEPT ![NameQ].RemotePath = <<"/", "r">>, ![NameQ].AutoSyncDebounce = 500,
                     ![NameP].Context = DirC]}

InitRefresh == InitStart(InitCfg, {"reload"})

NextRefresh ==
    \/ \E path \in {FileAF, FileABG} :
          hist.nEvents < MaxEvents /\ FsEvent(path, "write")
    \/ Loop
    \/ Tick(500)
    \/ Timer
    \/ \E file \in RefreshFiles : hist.nReloads < MaxReloads /\ EditConfig(file)
    \/ Reload
    \/ ConfigStep

SpecRefresh == InitRefresh /\ [][NextRefresh]_vars

\* ------------------------------------------------------------------ claims
\* C1 (as claimed): while every create/write event on a file has arrived less than
\* the debounce delay after the one before it and has reached Debouncer.Add before
\* the function of the timer it replaces has run, and no reload has run, Enqueue has
\* been called at most once for each (profile, path) key of that file.
C1_BurstEnqueuesOnce ==
    \A name \in Names, f \in Files :
        (hist.burst[f].ok /\ hist.nReloads = 0) => hist.enqCount[<<name, f>>] <= 1

\* C2: at most one transfer is in progress at any time, and a task is taken from the
\* queue only when no consumer is inside the attempts and retry delays of another.
InProgress == {c \in DOMAIN cons : cons[c].pc \in {"push", "sleep"}}

C2_OneTransferAtATime ==
    /\ [](Cardinality(InProgress) <= 1)
    /\ [][Len(queue') < Len(queue) => InProgress = {}]_vars

\* C2 witness: a task waits in the queue while the consumer sleeps between the
\* second and the third attempt of another.
C2_Witness ==
    \E c \in InProgress : cons[c].pc = "sleep" /\ cons[c].attempt = 1 /\ queue # <<>>

\* C3: a task that passed the checks gets 1 to 3 attempts and then exactly one
\* callback: success with the relative path right after the first successful attempt,
\* or error with the last failure and count 3 after three failed attempts.
RelativePath(profileName, filePath) ==
    TrimPrefix(filePath, profiles[profileName].Context \o <<PathSeparator>>)

C3_OneCallbackAfterAttempts ==
    LET d == hist.done
    IN /\ InProgress # {} => hist.cbs = 0 /\ hist.attempts < MaxRetries
       /\ (InProgress = {} /\ hist.attempts > 0) =>
              /\ hist.cbs = 1
              /\ hist.attempts \in 1..MaxRetries
              /\ d.cb \in {"success", "error"}
              /\ d.tries = hist.attempts
              /\ d.cb = "success" <=> hist.lastRes = "ok"
              /\ d.cb = "success" =>
                     d.relPath = RelativePath(d.profileName, d.filePath)
              /\ d.cb = "error" =>
                     /\ hist.attempts = MaxRetries
                     /\ d.failCount = 3
                     /\ d.err = hist.lastRes

\* C3 witnesses: the error callback after three failures, with the last of two
\* different failures; the success callback after a failed first attempt.
C3_Witness ==
    /\ hist.done.cb = "error" /\ hist.done.err = "e2" /\ hist.attempts = 3
    /\ InProgress = {}

\* C4 (as claimed): a task whose transfer failed three times has waited each delay
\* of the schedule 1s, 2s, 4s before its failure is reported with count 3.
C4_ThreeDelaysApplied ==
    hist.done.cb = "error" =>
        hist.done.slept = Delays /\ hist.done.failCount = 3 /\ hist.done.tries = 3

\* C5 (as claimed): five calls of NotifySuccess for one profile inside one batch
\* window emit exactly one notification, which reports a count of files, and leave
\* the success counter of the profile at 0.
C5_FiveCallsOneNotification ==
    \A p \in Names :
        (hist.win[p].calls = BatchThreshold /\ hist.win[p].age < BatchWindowMs) =>
            /\ hist.win[p].notes = 1
            /\ hist.win[p].aggs = 1
            /\ successCount[p] = 0

\* C6: the N-th error callback in a row for a profile, with no success in between,
\* emits a notification exactly when N = 1, N = 5, N = 10, or N > 10 and 10 divides N.
C6_ErrorBackoff ==
    hist.note.kind = "error" =>
        LET N == hist.errRun[hist.note.profile]
        IN hist.note.emitted <=> (N = 1 \/ N = 5 \/ N = 10 \/ (N > 10 /\ N % 10 = 0))

\* C6 witness: the twentieth failure in a row of a profile that had a success before
\* the run has emitted a notification.
C6_Witness ==
    /\ hist.note.kind = "error" /\ hist.note.emitted
    /\ hist.errRun[hist.note.profile] = 20
    /\ lastNotifyTime[hist.note.profile] # -1

\* C7: when the event loop handles a create/write event on a regular file, exactly the
\* registered profiles whose context is the path, or a prefix of it followed by "/",
\* and has the most separators among those, get a fresh debounce entry for
\* (profile, path); the entry of every other profile for that path is left as it was.
C7_Matching(path) ==
    {n \in DOMAIN wprofiles :
        LET ctx == wprofiles[n].Context
        IN \/ ctx = path
           \/ /\ Len(ctx) < Len(path)
              /\ SubSeq(path, 1, Len(ctx)) = ctx
              /\ path[Len(ctx) + 1] = "/"}

C7_Separators(n) == Cardinality({i \in DOMAIN wprofiles[n].Context :
                                    wprofiles[n].Context[i] = "/"})

C7_Expected(path) ==
    {n \in C7_Matching(path) :
        \A m \in C7_Matching(path) : C7_Separators(m) <= C7_Separators(n)}

C7_DeepestMatchesGetEntries ==
    [][(events # <<>> /\ events' = Tail(events)) =>
          LET event == Head(events)
              path == event.Name
              regular == /\ event.Op \in {"write", "create"}
                         /\ path \in DOMAIN fsys /\ fsys[path] = "file"
              expected == IF regular THEN C7_Expected(path) ELSE {}
          IN \A n \in Names :
                LET key == n \o <<":">> \o path
                IN IF n \in expected
                   THEN /\ key \in DOMAIN timers'
                        /\ tmr'[timers'[key]] =
                              [key |-> key, st |-> "armed", name |-> n, path |-> path,
                               left |-> IF wprofiles[n].AutoSyncDebounce = 0
                                        THEN 2000 ELSE wprofiles[n].AutoSyncDebounce]
                   ELSE /\ (key \in DOMAIN timers') = (key \in DOMAIN timers)
                        /\ key \in DOMAIN timers =>
                              /\ timers'[key] = timers[key]
                              /\ tmr'[timers[key]] = tmr[timers[key]]]_vars

\* C7 witness: of two nested contexts that both hold the file, the deeper profile has
\* a debounce entry for it and the shallower has none.
C7_Witness ==
    /\ DOMAIN wprofiles = Names
    /\ wprofiles[NameP].Context = DirA /\ wprofiles[NameQ].Context = DirAB
    /\ DebounceKey(NameQ, FileABG) \in DOMAIN timers
    /\ DebounceKey(NameP, FileABG) \notin DOMAIN timers

\* C8 (as claimed): once a reload has turned autoSync off for a watched profile
\* (none of whose timer functions was already running when the reload ran), no step
\* calls Enqueue for that profile until a reload watches it again.
C8_NoEnqueueAfterDisable ==
    [][\A name \in hist.quiet, f \in Files :
          hist.enqCount'[<<name, f>>] = hist.enqCount[<<name, f>>]]_vars

\* C9: the queue never holds more than 100 tasks, and while it holds 100 every caller
\* inside Enqueue stays there and no task is added: the only change of the queue is
\* the consumer taking its head.
Blocked == {id \in DOMAIN tmr : tmr[id].st = "callback"}

C9_BoundedBlockingQueue ==
    /\ [](Len(queue) <= 100)
    /\ [][Len(queue) = 100 =>
            /\ queue' = queue \/ queue' = Tail(queue)
            /\ \A id \in Blocked : id \in DOMAIN tmr' /\ tmr'[id] = tmr[id]]_vars

\* C9 witness: the queue holds 100 tasks and a caller is inside Enqueue.
C9_Witness == Len(queue) = 100 /\ Blocked # {}

\* C10 (as claimed): while the queue is full and a caller is blocked in Enqueue, the
\* event loop handles no file system event.
C10_FullQueueStallsEventLoop ==
    [][(Len(queue) = QueueCap /\ Blocked # {}) =>
          ~(events # <<>> /\ events' = Tail(events))]_vars

\* C11: the event loop never calls Enqueue or the transfer and never waits on the
\* queue: a step of the loop leaves the queue and the consumer as they are and arms
\* the timer of every profile the event is for, and the loop can take its step on
\* a pending event while the queue is full and the consumer inside a transfer.
C11_LoopNeverWaitsOnQueue ==
    /\ [][(events # <<>> /\ events' = Tail(events)) =>
            LET path == Head(events).Name
                regular == /\ Head(events).Op \in {"write", "create"}
                           /\ path \in DOMAIN fsys /\ fsys[path] = "file"
            IN /\ queue' = queue
               /\ cons' = cons
               /\ regular => \A n \in C7_Expected(path) :
                     /\ (n \o <<":">> \o path) \in DOMAIN timers'
                     /\ tmr'[timers'[n \o <<":">> \o path]].st = "armed"]_vars
    /\ []((/\ events # <<>> /\ Watching
            /\ Len(queue) = QueueCap /\ InProgress # {}
            /\ Cardinality(DOMAIN tmr) + Cardinality(DOMAIN wprofiles) <= MaxTimers)
          => ENABLED LoopEvent)

\* C11 witness: the loop has handled an event while the queue was full and the
\* consumer inside a transfer, and the queue is still full with a caller blocked.
C11_Witness ==
    /\ hist.loopFull
    /\ Len(queue) = QueueCap /\ InProgress # {} /\ Blocked # {}
    /\ \E id \in DOMAIN tmr : tmr[id].st = "armed"

\* C12 (as claimed): once Daemon has returned after the signal (and the process
\* ends), the consumer has processed every task that was buffered in the queue at
\* the signal and has finished the task that was in flight, retries included.
C12_DrainedBeforeExit ==
    proc \in {"returned", "exited"} =>
        /\ hist.after = hist.atStop
        /\ queue = <<>>
        /\ hist.flight # "pending"
        /\ InProgress = {}

\* C13: after UploadQueue.Stop() the consumer takes the tasks that were buffered at
\* the time of Stop in queue order and nothing else, and it leaves its loop only
\* when all of them have been taken and the task that was in flight at the time of
\* Stop has been finished with its callback.
C13_DrainAfterStop ==
    /\ closed => hist.after \o queue = hist.atStop
    /\ \A c \in DOMAIN cons :
          cons[c].pc = "done" =>
             /\ closed
             /\ queue = <<>>
             /\ hist.after = hist.atStop
             /\ hist.flight # "pending"

\* C13 witness: the consumer has left its loop after a Stop that found one task in
\* flight and two different tasks buffered.
C13_Witness ==
    /\ \E c \in DOMAIN cons : cons[c].pc = "done"
    /\ Len(hist.atStop) = 2 /\ hist.atStop[1] # hist.atStop[2]
    /\ hist.flight = "done"

\* C14: after UploadQueue.Stop() no Enqueue call is accepted: no step adds a task to
\* the queue, no callback of a timer completes its Enqueue, and the consumer takes
\* no task that was not buffered at the time of Stop.
C14_NoEnqueueAfterStop ==
    /\ [][closed =>
            /\ queue' = queue \/ (queue # <<>> /\ queue' = Tail(queue))
            /\ \A id \in DOMAIN tmr : tmr[id].st = "callback" => id \in DOMAIN tmr']_vars
    /\ [](closed =>
            /\ Len(hist.after) <= Len(hist.atStop)
            /\ hist.after = SubSeq(hist.atStop, 1, Len(hist.after)))

\* C14 witness: Enqueue has been called after Stop (the send on the closed channel
\* panicked) while tasks buffered at the time of Stop were being taken.
C14_Witness ==
    /\ closed /\ proc = "panic"
    /\ hist.atStop # <<>> /\ hist.after # <<>>

\* C15 (as claimed): a timer that was in the map when Stop(key) or StopAll() was
\* called, and whose key has not been added again, never runs its callback.
C15_CancellationIsFinal ==
    [][\A id \in hist.cancelled :
          ~(/\ id \in DOMAIN tmr
            /\ tmr[id].st = "callback"
            /\ id \notin DOMAIN tmr'
            /\ Len(queue') = Len(queue) + 1)]_vars

\* C16 (as claimed): for every key at most one timer can still invoke its callback
\* (it is waiting for its delay, or has expired and not yet removed its entry), and
\* that timer is the one the timers map holds for the key.
C16_OneLiveTimerPerKey ==
    LET live == {id \in DOMAIN tmr : tmr[id].st \in {"armed", "fired"}}
    IN /\ \A id1, id2 \in live : tmr[id1].key = tmr[id2].key => id1 = id2
       /\ \A id \in live : tmr[id].key \in DOMAIN timers /\ timers[tmr[id].key] = id

\* C17 (as claimed): the reconciler changes the registry only under the exclusive
\* lock, so no insert, replace or delete of an entry happens while the consumer
\* holds the read lock for its lookup.
C17_MutationsUnderExclusiveLock ==
    [][profiles' # profiles => profilesMu # "rlocked"]_vars

\* C18 (as claimed): the queue never holds two pending tasks for the same
\* (profile, path) key.
C18_NoDuplicateTasks ==
    \A i, j \in DOMAIN queue : queue[i] = queue[j] => i = j

\* C19 (as claimed): a task enters the queue only when no timer of a different key
\* that fired earlier is still on its way to Enqueue, and the consumer takes the
\* tasks in exactly the order in which they entered the queue.
C19_FiringOrderIsQueueOrder ==
    /\ [][\A id \in DOMAIN tmr :
            (/\ tmr[id].st = "callback"
             /\ id \notin DOMAIN tmr'
             /\ Len(queue') = Len(queue) + 1)
            => \A k \in DOMAIN hist.fire :
                  hist.fire[k] = id =>
                     \A j \in 1..(k - 1) : tmr[hist.fire[j]].key = tmr[id].key]_vars
    /\ [](hist.deq \o queue = hist.enq)

\* C20: a task whose path relative to the context of its profile matches a pattern
\* of the context's .syncignore file (here: a pattern without a slash, which
\* matches a file of that name at any depth) is dropped when the consumer takes it:
\* the consumer is back at the queue with no attempt made and no callback invoked,
\* and the notifier is untouched.
C20_Matching(task) ==
    /\ task.profileName \in DOMAIN profiles
    /\ profiles[task.profileName].Context \in DOMAIN SyncignoreFiles
    /\ \E i \in DOMAIN SyncignoreFiles[profiles[task.profileName].Context] :
          SyncignoreFiles[profiles[task.profileName].Context][i] =
              Base(RelativePath(task.profileName, task.filePath))

C20_IgnoredTaskIsDropped ==
    /\ [][(queue # <<>> /\ queue' = Tail(queue) /\ C20_Matching(Head(queue))) =>
            /\ \A c \in DOMAIN cons : cons'[c].pc = "recv"
            /\ hist'.done.cb = "ignored"
            /\ hist'.attempts = 0 /\ hist'.cbs = 0
            /\ UNCHANGED notiVars]_vars
    /\ [](hist.done.cb = "ignored" =>
            hist.attempts = 0 /\ hist.cbs = 0 /\ InProgress = {})

\* C20 witness: the consumer has dropped the task of /a/b/g, whose relative path
\* b/g matches the pattern g, after it had uploaded another task.
C20_Witness ==
    /\ hist.done.cb = "ignored"
    /\ hist.done.relPath = <<"b", "/", "g">>
    /\ \E p \in Names : lastNotifyTime[p] # -1

\* C21: a task whose absolute path is neither the absolute context of its profile
\* nor below it is dropped when the consumer has looked its profile up: the
\* consumer is back at the queue, no attempt was made, no callback invoked, the
\* task is not put back into the queue and the notifier is untouched.
C21_Outside(profileName, filePath) ==
    /\ profileName \in DOMAIN profiles
    /\ Abs(filePath) # Abs(profiles[profileName].Context)
    /\ ~HasPrefix(Abs(filePath), Abs(profiles[profileName].Context) \o <<PathSeparator>>)

C21_OutsideContextIsDropped ==
    /\ [][\A c \in DOMAIN cons :
            (/\ cons[c].pc \in {"lookup", "race"}
             /\ cons'[c].pc \notin {"lookup", "race"}
             /\ C21_Outside(cons[c].profileName, cons[c].filePath))
            => /\ cons'[c] = Idle
               /\ hist'.done.cb = "outside context"
               /\ hist'.attempts = 0 /\ hist'.cbs = 0
               /\ queue' = queue
               /\ UNCHANGED notiVars]_vars
    /\ [](hist.done.cb = "outside context" =>
            hist.attempts = 0 /\ hist.cbs = 0 /\ InProgress = {})

\* C21 witness: the consumer has dropped the task of /a/b/g for profile q after a
\* reload moved the context of q to /c.
C21_Witness ==
    /\ hist.done.cb = "outside context"
    /\ hist.done.filePath = FileABG
    /\ NameQ \in DOMAIN profiles /\ profiles[NameQ].Context = DirC

\* C22: a timer that has fired leaves the debouncer only by adding the one task of
\* its key to the queue, and nothing else adds a task; the consumer takes every
\* task that entered the queue once, in the order of entering; and while the
\* daemon runs and every transfer returns, again and again no timer is waiting to
\* add its task and every task that entered the queue has been taken and finished.
C22_OneTaskPerFiringOnceProcessed ==
    /\ [][/\ \A id \in DOMAIN tmr :
               (tmr[id].st \in {"fired", "callback"} /\ id \notin DOMAIN tmr')
               => queue' = Append(queue, uploadTask(tmr[id].name, tmr[id].path))
          /\ Len(queue') > Len(queue)
               => \E id \in DOMAIN tmr : tmr[id].st = "callback" /\ id \notin DOMAIN tmr'
         ]_vars
    /\ [](hist.deq \o queue = hist.enq)
    /\ []<>(/\ \A id \in DOMAIN tmr : tmr[id].st = "armed"
            /\ hist.deq = hist.enq
            /\ InProgress = {})

\* C22 witness: three timers have fired, their three tasks (of two keys) have
\* entered the queue and the consumer has taken and finished all of them, the last
\* one after three failed attempts and one before it with success.
C22_Witness ==
    /\ Len(hist.enq) = 3 /\ hist.deq = hist.enq
    /\ \E i, j \in DOMAIN hist.enq : hist.enq[i] # hist.enq[j]
    /\ queue = <<>> /\ InProgress = {} /\ tmr = EmptyMap
    /\ hist.done.cb = "error" /\ hist.done.tries = MaxRetries
    /\ \E p \in Names : lastNotifyTime[p] # -1

\* A run of handleConfigReload ends in this step: with its last statement, or at
\* once when the load fails or no profile needs a call of Watch or Unwatch.
ReloadEnds ==
    /\ rl'.pc = "idle" /\ proc' = proc
    /\ \/ rl.pc # "idle" /\ rl.ret # "api"
       \/ rl.pc = "idle" /\ cfgPending /\ ~cfgPending'

\* The config.json that the run of handleConfigReload which ends has read, and
\* registry and watcher as it found them.
ReloadFile == IF rl.pc = "idle" THEN cfgFile ELSE rl.cfg

ReloadFound ==
    IF rl.pc = "idle"
    THEN ReloadState(profiles, WatcherState(wprofiles, wcallbacks, subs))
    ELSE hist.begun

\* C23 (as claimed): a profile that fails validation counts as absent.  Daemon
\* fails to start only when the valid profiles of the file give nothing to watch,
\* and a reload leaves registry and watcher as the reconciliation of the valid
\* profiles of the new file leaves them.
C23_ValidPart(file) ==
    [name \in {n \in DOMAIN file : Validate(SetDefaults(file[n])) = "nil"} |->
        SetDefaults(file[name])]

C23_InvalidProfileIsolated ==
    /\ [](proc = "exited" => ~DaemonStart(InitFs, C23_ValidPart(cfgFile), OkEnv).up)
    /\ [][ReloadEnds =>
            \E order1 \in Orders(DOMAIN ReloadFound.reg),
               order2 \in Orders(DOMAIN C23_ValidPart(ReloadFile)) :
               LET r == handleConfigReload(fsys, ReloadFound,
                            C23_ValidPart(ReloadFile), order1, order2)
               IN /\ profiles' = r.reg
                  /\ wprofiles' = r.w.profiles
                  /\ subs' = r.w.subs]_vars

\* Events of every kind for a file and a directory of the watched tree, with the
\* timers they start.
EventOps == {"write", "create", "remove", "rename", "chmod"}

InitKinds == InitWith(InitCfg, {"ops"})

NextKinds ==
    \/ \E path \in {FileAF, DirAB}, op \in EventOps :
          hist.nEvents < MaxEvents /\ FsEvent(path, op)
    \/ LoopEvent
    \/ Tick(BatchWindowMs)
    \/ Timer

SpecKinds == InitKinds /\ [][NextKinds]_vars

\* A directory /a/b and a file in it appear under the watched context /a.
GrowFs == [path \in (DOMAIN InitFs) \ {DirAB, FileABG} |-> InitFs[path]]

InitGrow == InitOn(GrowFs, (NameP :> Profile(DirA, TRUE, 0)), {})

NextGrow ==
    \/ Create(DirAB, "dir")
    \/ Create(FileABG, "file")
    \/ \E path \in {DirAB, FileABG, FileAF}, op \in {"write", "create"} :
          /\ hist.nEvents < MaxEvents /\ path \in DOMAIN fsys
          /\ FsEvent(path, op)
    \/ LoopEvent
    \/ Tick(BatchWindowMs)
    \/ Timer

SpecGrow == InitGrow /\ [][NextGrow]_vars

\* Watch of p and Unwatch of p and q called in any order on the running watcher,
\* statement by statement next to the event loop, with contexts that are a
\* directory, a regular file, a symbolic link to a directory, a symbolic link to
\* nothing or missing, and with directories created under a
\* subscribed directory.  The events are creates of a directory: handleEvent
\* subscribes it and returns before it reads the maps of the watcher, which is the
\* step LoopMatch.
WatchContexts == {DirA, DirAB, DirC, FileGone, FileAF, LinkAL, LinkAD}

InitWatcher == InitWith(InitCfg, {})

NextWatcher ==
    \/ \E context \in WatchContexts : WatchBegin(NameP, Profile(context, TRUE, 0))
    \/ \E profileName \in Names : UnwatchBegin(profileName)
    \/ ConfigStep
    \/ FsEvent(DirAB, "create")
    \/ LoopMatch

SpecWatcher == InitWatcher /\ [][NextWatcher]_vars

\* Watch and Unwatch on a file system in which the directory /a/b may not be read,
\* with contexts that are a directory, missing, or the regular file /a/f written
\* with a separator behind it; with the events of the files beside /a/b and the
\* timers the event loop arms.
LockedFs == [InitFs EXCEPT ![DirAB] = "locked"]

LockedContexts == {DirA, FileGone, FileAF \o <<PathSeparator>>}

InitLocked == InitOn(LockedFs, (NameQ :> Profile(DirC, TRUE, 0)), {})

NextLocked ==
    \/ \E context \in LockedContexts : WatchBegin(NameP, Profile(context, TRUE, 0))
    \/ \E profileName \in Names : UnwatchBegin(profileName)
    \/ ConfigStep
    \/ \E path \in {FileAF, FileCF} :
          hist.nEvents < MaxEvents /\ FsEvent(path, "write")
    \/ Loop

SpecLocked == InitLocked /\ [][NextLocked]_vars

\* C24: in a reload whose configuration loads, every profile ends as its own
\* transition leaves it, whatever Watch and Unwatch returned for the other
\* profiles, and the daemon keeps running: registration and registry entry of a
\* profile are those of the reconciliation of that profile alone.
C24_Only(m, name) == [x \in (DOMAIN m) \cap {name} |-> m[x]]

C24_Alone(name) ==
    handleConfigReload(fsys,
        ReloadState(C24_Only(ReloadFound.reg, name),
                    WatcherState(C24_Only(ReloadFound.w.profiles, name),
                                 C24_Only(ReloadFound.w.callbacks, name),
                                 ReloadFound.w.subs)),
        C24_Only(ReloadFile, name),
        IF name \in DOMAIN ReloadFound.reg THEN <<name>> ELSE <<>>,
        IF name \in DOMAIN ReloadFile THEN <<name>> ELSE <<>>)

C24_FailureIsIsolated ==
    [][/\ rl' # rl => proc' = proc
       /\ (ReloadEnds /\ ~LoadConfig(ReloadFile).err) =>
         /\ proc' = "running"
         /\ \A name \in Names :
               /\ C24_Only(wprofiles', name) = C24_Alone(name).w.profiles
               /\ C24_Only(wcallbacks', name) = C24_Alone(name).w.callbacks
               /\ C24_Only(profiles', name) = C24_Alone(name).reg]_vars

\* C24 witness: on the file system whose /a/b may not be read, a reload has moved p
\* from /a to /c, in the watcher and in the registry, and its Watch of q at /a/b
\* has failed after it stored the registration: q is registered at /a/b and the
\* registry holds q with the context /c it had before.
C24_Witness ==
    /\ ~cfgPending /\ rl.pc = "idle" /\ hist.nReloads > 0
    /\ fsys[DirAB] = "locked"
    /\ NameP \in DOMAIN wprofiles /\ wprofiles[NameP].Context = DirC
    /\ NameP \in DOMAIN profiles /\ profiles[NameP].Context = DirC
    /\ NameQ \in DOMAIN wprofiles /\ wprofiles[NameQ].Context = DirAB
    /\ NameQ \in DOMAIN profiles /\ profiles[NameQ].Context = DirC
    /\ DirAB \notin subs

\* C25: a reload finds profile name watched, still with autoSync, with another
\* context that exists.
C25_Changed(name) ==
    /\ ~LoadConfig(ReloadFile).err
    /\ name \in DOMAIN ReloadFound.w.profiles /\ name \in DOMAIN ReloadFound.reg
    /\ name \in DOMAIN ReloadFile
    /\ ReloadFile[name].AutoSync
    /\ ReloadFile[name].Context # ReloadFound.reg[name].Context
    /\ Exists(fsys, ReloadFile[name].Context)

\* C25: after the reload of a watched profile whose context changed to an existing
\* directory, the profile is registered with the new context, the registry holds
\* the new profile, every directory of the new tree is subscribed, and no file
\* under the old context matches the profile.
C25_ContextChangeRewatches ==
    [][ReloadEnds =>
         \A name \in Names :
            C25_Changed(name) =>
               /\ name \in DOMAIN wprofiles'
               /\ wprofiles'[name] = LoadConfig(ReloadFile).Profiles[name]
               /\ name \in DOMAIN profiles'
               /\ profiles'[name] = LoadConfig(ReloadFile).Profiles[name]
               /\ DirsUnder(fsys, ReloadFile[name].Context) \subseteq subs'
               /\ \A f \in Files :
                     HasPrefix(f, ReloadFound.reg[name].Context \o <<PathSeparator>>) =>
                        name \notin findMatchingProfiles(wprofiles', f)]_vars

\* C26: a reload finds profile name with autoSync in config.json and not in the
\* registry.
C26_New(name) ==
    /\ name \in DOMAIN ReloadFile /\ ReloadFile[name].AutoSync
    /\ name \notin DOMAIN ReloadFound.reg

\* C26 (as claimed): a reload watches a profile that is new with autoSync in the
\* configuration it loaded and puts it into the registry when its context is not
\* empty and exists; a new profile of config.json whose context is empty or
\* missing stays unwatched and out of the registry.
C26_Outcome(name, watched) ==
    IF watched
    THEN ~LoadConfig(ReloadFile).err =>
            /\ name \in DOMAIN wprofiles'
            /\ wprofiles'[name] = LoadConfig(ReloadFile).Profiles[name]
            /\ name \in DOMAIN wcallbacks'
            /\ name \in DOMAIN profiles'
            /\ profiles'[name] = LoadConfig(ReloadFile).Profiles[name]
            /\ DirsUnder(fsys, ReloadFile[name].Context) \subseteq subs'
    ELSE /\ name \notin DOMAIN wprofiles'
         /\ name \notin DOMAIN wcallbacks'
         /\ name \notin DOMAIN profiles'

C26_NewProfileWatchedOrSkipped ==
    [][ReloadEnds =>
         \A name \in Names :
            C26_New(name) =>
               C26_Outcome(name, /\ ReloadFile[name].Context # <<>>
                                 /\ Exists(fsys, ReloadFile[name].Context))]_vars

\* What holds of the new profiles whose Watch does not fail behind the test of
\* existence: those whose context is a tree that fsnotify can subscribe, and
\* those whose context is empty or missing.
C26_Subscribable(context) ==
    \A path \in DOMAIN fsys :
       (path = Clean(context) \/ HasPrefix(path, Clean(context) \o <<PathSeparator>>))
       => fsys[path] # "locked"

C26_WatchedWhenSubscribable ==
    [][ReloadEnds =>
         \A name \in Names :
            (/\ C26_New(name)
             /\ C26_Subscribable(ReloadFile[name].Context)) =>
               C26_Outcome(name, /\ ReloadFile[name].Context # <<>>
                                 /\ Exists(fsys, ReloadFile[name].Context))]_vars

\* Reloads that reach the cases of C26: the new profile q is watched at /a/b; q is
\* skipped at the missing /a/x; Watch of q at /a/b, which may not be read, has
\* failed and q is registered in the watcher and not in the registry.
C26_ReachedWatched ==
    /\ ~cfgPending /\ rl.pc = "idle" /\ NameQ \in hist.fresh
    /\ NameQ \in DOMAIN wprofiles /\ NameQ \in DOMAIN profiles /\ DirAB \in subs

C26_ReachedSkipped ==
    /\ ~cfgPending /\ rl.pc = "idle" /\ NameQ \in hist.fresh
    /\ cfgFile[NameQ].AutoSync /\ cfgFile[NameQ].Context = FileGone
    /\ NameQ \notin DOMAIN wprofiles /\ NameQ \notin DOMAIN profiles

C26_ReachedHalfWatched ==
    /\ ~cfgPending /\ rl.pc = "idle" /\ NameQ \in hist.fresh
    /\ fsys[DirAB] = "locked" /\ cfgFile[NameQ].Context = DirAB
    /\ NameQ \in DOMAIN wprofiles /\ NameQ \in DOMAIN wcallbacks
    /\ NameQ \notin DOMAIN profiles

\* C27: after the success callback of a profile its error count is 0 and the
\* error counts of the other profiles are what they were; the first error callback
\* of a profile after one of its successes emits a notification.
C27_SuccessResetsErrorCount ==
    /\ [](hist.note.kind = "success" => errorCount[hist.note.profile] = 0)
    /\ [][hist'.note.kind = "success" =>
             \A other \in Names \ {hist'.note.profile} :
                errorCount'[other] = errorCount[other]]_vars
    /\ [][\A name \in Names :
             (/\ errorCount'[name] # errorCount[name]
              /\ hist'.note.kind = "error"
              /\ hist.errRun[name] = 0
              /\ lastNotifyTime[name] # -1) =>
                 /\ errorCount'[name] = 1
                 /\ hist'.note.profile = name
                 /\ hist'.note.emitted
                 /\ hist'.note.message = "first"]_vars

\* C27 witness: q has just succeeded while p has failures in a row: the error count
\* of q is 0 and that of p is still what the failures left.
C27_Witness ==
    /\ hist.note.kind = "success" /\ hist.note.profile = NameQ
    /\ errorCount[NameQ] = 0
    /\ errorCount[NameP] > 1
    /\ hist.errRun[NameP] = errorCount[NameP]

\* A call of Watch or Unwatch on the watcher returns in this step.
CallReturns(op) == hist'.call.seq # hist.call.seq /\ hist'.call.op = op

\* The step in which a call returns changes nothing but the position of the caller.
CallStepChangesNothing ==
    UNCHANGED <<sysVars, fsys, cfgFile, cfgPending, profiles, watchVars, events, debVars,
                queue, cons, notiVars>>

\* C28 (as claimed): Unwatch of a name without registration returns an error and
\* changes nothing; when Unwatch of a registered name returns, it returns nil, no
\* directory of the tree of its context is subscribed and its profile and its
\* callback are removed.
C28_UnwatchRemovesOrFails ==
    [][CallReturns("Unwatch") =>
         LET name == hist'.call.name
             before == hist.begun.w
         IN IF name \notin DOMAIN before.profiles
            THEN /\ hist'.call.err
                 /\ CallStepChangesNothing
                 /\ wprofiles = before.profiles /\ wcallbacks = before.callbacks
            ELSE /\ ~hist'.call.err
                 /\ DirsUnder(fsys, before.profiles[name].Context) \cap subs' = {}
                 /\ name \notin DOMAIN wprofiles'
                 /\ name \notin DOMAIN wcallbacks']_vars

\* C28, for a call of Unwatch that no step of the event loop falls into: from every
\* state of the watcher the call does what the claim says.
C28_UnwatchAlone ==
    rl.pc = "idle" =>
       \A name \in Names :
          LET u == Unwatch(fsys, WatcherState(wprofiles, wcallbacks, subs), name)
          IN IF name \notin DOMAIN wprofiles
             THEN /\ u.err
                  /\ u.profiles = wprofiles /\ u.callbacks = wcallbacks /\ u.subs = subs
             ELSE /\ ~u.err
                  /\ DirsUnder(fsys, wprofiles[name].Context) \cap u.subs = {}
                  /\ name \notin DOMAIN u.profiles
                  /\ name \notin DOMAIN u.callbacks

\* C29: what a call of Watch that returned nil leaves: the registration of the
\* name with the context of the call.
C29_Stored(name, context) ==
    /\ name \in DOMAIN wprofiles' /\ wprofiles'[name].Context = context
    /\ name \in DOMAIN wcallbacks'

\* C29 (as claimed): Watch returns an error when nothing exists at the context
\* path, and then has changed nothing; a Watch that returns nil has subscribed the
\* context and every directory below it and stored the registration.
C29_WatchSubscribesOrFails ==
    [][CallReturns("Watch") =>
         LET name == hist'.call.name
             context == hist'.call.context
         IN /\ ~Exists(fsys, context) =>
                  /\ hist'.call.err
                  /\ CallStepChangesNothing
                  /\ wprofiles = hist.begun.w.profiles
                  /\ wcallbacks = hist.begun.w.callbacks
            /\ ~hist'.call.err =>
                  /\ Clean(context) \in subs'
                  /\ DirsUnder(fsys, context) \subseteq subs'
                  /\ C29_Stored(name, context)]_vars

\* C29, for contexts that are directories or missing: the same property.
C29_WatchOfDirectory ==
    [][CallReturns("Watch") =>
         LET name == hist'.call.name
             context == hist'.call.context
         IN /\ ~Exists(fsys, context) =>
                  /\ hist'.call.err
                  /\ CallStepChangesNothing
                  /\ wprofiles = hist.begun.w.profiles
                  /\ wcallbacks = hist.begun.w.callbacks
            /\ (Exists(fsys, context) /\ fsys[Clean(context)] = "dir") =>
                  /\ ~hist'.call.err
                  /\ Clean(context) \in subs'
                  /\ DirsUnder(fsys, context) \subseteq subs'
                  /\ C29_Stored(name, context)]_vars

\* C30: the loop changes no subscription, no timer and no queue entry when it takes
\* an event that is neither a create nor a write; as long as only such events were
\* reported there is no timer, the queue is empty and the subscriptions are those
\* of the start.
C30_OtherKindsIgnored ==
    /\ [][(events # <<>> /\ events' = Tail(events)
           /\ Head(events).Op \notin {"create", "write"}) =>
             UNCHANGED <<subs, timers, tmr, queue>>]_vars
    /\ [](hist.seen \cap {"create", "write"} = {} =>
             /\ DOMAIN tmr = {} /\ DOMAIN timers = {}
             /\ queue = <<>>
             /\ subs = DirsUnder(fsys, DirA))

\* C30 witness: a remove, a rename and a chmod event were reported and handled, and
\* nothing else: no timer, no task.
C30_Witness ==
    /\ hist.seen = {"remove", "rename", "chmod"}
    /\ events = <<>>
    /\ DOMAIN tmr = {} /\ queue = <<>>

\* C31: when the loop takes a create event for a directory, the directory is
\* subscribed afterwards; when it takes a create or write event for a regular file
\* of a subscribed directory, the file has an armed timer of the deepest profile
\* that owns it; when it takes any event for a directory, no timer and no task
\* appears.
C31_Taken == events # <<>> /\ events' = Tail(events)

C31_NewDirectorySubscribed ==
    [][C31_Taken =>
         LET event == Head(events)
             isDir == event.Name \in DOMAIN fsys /\ fsys[event.Name] = "dir"
             isFile == event.Name \in DOMAIN fsys /\ fsys[event.Name] = "file"
         IN /\ (isDir /\ event.Op = "create") => event.Name \in subs'
            /\ isDir => UNCHANGED <<timers, tmr, queue>>
            /\ isFile =>
                  \A name \in findMatchingProfiles(wprofiles, event.Name) :
                     /\ DebounceKey(name, event.Name) \in DOMAIN timers'
                     /\ tmr'[timers'[DebounceKey(name, event.Name)]].st = "armed"
                     /\ tmr'[timers'[DebounceKey(name, event.Name)]].path = event.Name]_vars

\* C31 witness: /a/b was created after the start, and the file /a/b/g created in it
\* has an armed timer of profile p.
C31_Witness ==
    /\ DirAB \in subs /\ FileABG \in DOMAIN fsys
    /\ DebounceKey(NameP, FileABG) \in DOMAIN timers
    /\ tmr[timers[DebounceKey(NameP, FileABG)]].st = "armed"

\* C32: a task of a profile whose ignore patterns cannot be loaded is not dropped
\* when the consumer takes it: the consumer goes to the first transfer attempt, and
\* it comes back to the queue only with the success or the error callback of the
\* task.
C32_LoadFailureMeansNoFilter ==
    [][\A c \in DOMAIN cons :
          LET failing(name) == name \in DOMAIN profiles
                               /\ LoadFails(Abs(profiles[name].Context))
          IN /\ (/\ cons[c].pc = "recv" /\ queue # <<>> /\ queue' = Tail(queue)
                  /\ failing(Head(queue).profileName))
                   => /\ cons'[c].pc = "push"
                      /\ cons'[c].profileName = Head(queue).profileName
                      /\ cons'[c].filePath = Head(queue).filePath
                      /\ hist'.done.cb = "none"
             /\ (/\ cons[c].pc \in {"push", "sleep"} /\ failing(cons[c].profileName)
                  /\ cons'[c].pc = "recv")
                   => /\ hist'.done.cb \in {"success", "error"}
                      /\ hist'.done.filePath = cons[c].filePath
                      /\ hist'.cbs = 1]_vars

\* C32 witness: the upload of /c/f for q, whose .syncignore cannot be read, has
\* ended with the success callback.
C32_Witness ==
    /\ hist.done.cb = "success"
    /\ hist.done.profileName = NameQ /\ hist.done.filePath = FileCF
    /\ LoadFails(Abs(profiles[NameQ].Context))

\* C33: the shutdown of the daemon never sends on the closed channel of the queue:
\* after queue.Stop() has closed it no debounce callback calls Enqueue, so the
\* process does not panic.
C33_NoSendOnClosedQueue == closed => proc # "panic"

\* C34: after a reload that loaded config.json, every profile of that configuration
\* with autoSync and a context that exists is watched at that context.
C34_ReloadWatchesAllAutoSync ==
    [][(ReloadEnds /\ ~LoadConfig(ReloadFile).err) =>
         \A name \in DOMAIN ReloadFile :
            (/\ ReloadFile[name].AutoSync
             /\ ReloadFile[name].Context # <<>>
             /\ Exists(fsys, ReloadFile[name].Context))
               => /\ name \in DOMAIN wprofiles'
                  /\ wprofiles'[name].Context = ReloadFile[name].Context]_vars

\* C35: while handleEvent is between findMatchingProfiles and its lookups, every
\* name that matched is registered with a profile and a callback, and the lookup
\* does not panic.
C35_MatchedNamesStayRegistered ==
    /\ Handling =>
          LET names == Head(events).matched \cup
                          (IF Head(events).cur = NoCur THEN {} ELSE {Head(events).cur.name})
          IN names \subseteq DOMAIN wprofiles /\ names \subseteq DOMAIN wcallbacks
    /\ proc # "panic"

\* C36: a call of Unwatch(name) leaves every other profile as it was: its
\* registration, and every subscribed directory of its context tree.
C36_UnwatchLeavesOthers ==
    [][CallReturns("Unwatch") =>
         LET before == hist.begun.w
         IN \A other \in (DOMAIN before.profiles) \ {hist'.call.name} :
               /\ other \in DOMAIN wprofiles'
               /\ wprofiles'[other] = before.profiles[other]
               /\ other \in DOMAIN wcallbacks'
               /\ wcallbacks'[other] = before.callbacks[other]
               /\ (DirsUnder(fsys, before.profiles[other].Context) \cap before.subs)
                     \subseteq subs']_vars

\* C37: the goroutine that runs a callback never holds the debouncer's mutex.
\* While a callback is blocked inside Enqueue on the full queue, the holder of the
\* mutex, if there is one, can run on to its Unlock, and with the mutex free the
\* Lock of Add (for the event the loop handles), of Stop (for every key) and of
\* StopAll returns; the blocked callback completes as soon as the queue has room.
C37_CallbackRunsOutsideMutex ==
    /\ \A id \in Blocked : mutex # TimerHolder(id)
    /\ (BlockedOnFull /\ Alive) =>
          /\ ~MutexFree(mutex) => ENABLED MutexUnlock
          /\ MutexFree(mutex) =>
                /\ (Handling /\ Head(events).cur.read
                               /\ Cardinality(DOMAIN tmr) < MaxTimers)
                      => ENABLED MutexLock(Holder("Add", 0, <<>>))
                /\ \A key \in DOMAIN timers : ENABLED MutexLock(Holder("Stop", 0, key))
                /\ timers # EmptyMap => ENABLED MutexLock(Holder("StopAll", 0, <<>>))
    /\ (Blocked # {} /\ Alive /\ ~closed /\ CanSend(queue)) =>
          \A id \in Blocked : ENABLED TimerCallback(id)

\* C37 witness: a callback is blocked inside Enqueue on the full queue, and Add, Stop
\* and StopAll have each taken the mutex and returned while a callback was blocked
\* so.
C37_Witness ==
    /\ BlockedOnFull
    /\ hist.underBlock = {"Add", "Stop", "StopAll"}

\* C38 (as claimed): after a reload whose load succeeded, every profile that was
\* watched and stays watched has, in the registry and in the watcher, the profile of
\* the new configuration, whether or not its context changed.
C38_ReloadRefreshesWatchedProfiles ==
    [][(ReloadEnds /\ ~LoadConfig(ReloadFile).err) =>
         \A name \in DOMAIN ReloadFound.w.profiles \cap DOMAIN wprofiles' :
            name \in DOMAIN ReloadFile =>
               /\ name \in DOMAIN profiles'
               /\ profiles'[name] = LoadConfig(ReloadFile).Profiles[name]
               /\ wprofiles'[name] = LoadConfig(ReloadFile).Profiles[name]]_vars

\* C39: a task whose profile name is not in the registry when the consumer looks it
\* up is discarded at the lookup: no attempt is made, neither callback is invoked,
\* the notifier is untouched, the task is not put back, and the consumer is back
\* at the channel, where it can receive the next task.
C39_UnknownProfileIsDiscarded ==
    /\ [][\A c \in DOMAIN cons :
            (/\ cons[c].pc \in {"lookup", "race"}
             /\ cons'[c].pc \notin {"lookup", "race"}
             /\ cons[c].profileName \notin DOMAIN profiles)
            => /\ cons'[c] = Idle
               /\ hist'.done.cb = "no profile"
               /\ hist'.done.profileName = cons[c].profileName
               /\ hist'.attempts = 0 /\ hist'.cbs = 0
               /\ queue' = queue
               /\ UNCHANGED notiVars]_vars
    /\ [](hist.done.cb = "no profile" =>
            /\ hist.attempts = 0 /\ hist.cbs = 0 /\ InProgress = {}
            /\ \A c \in DOMAIN cons :
                  (cons[c] = Idle /\ queue # <<>> /\ Alive) => ENABLED Receive(c))

\* C39 witness: the consumer has discarded a task of profile q, which a reload took
\* out of the registry while the task waited, and the next task waits in the queue.
C39_Witness ==
    /\ hist.done.cb = "no profile"
    /\ hist.done.profileName = NameQ
    /\ NameQ \notin DOMAIN profiles
    /\ queue # <<>>
    /\ \A c \in DOMAIN cons : cons[c] = Idle

\* C40 (as claimed): a call of Watch that returns an error stores nothing in the
\* maps of the watcher, and when the name was not registered before the call no
\* file matches the profile after it.
C40_FailedWatchStoresNothing ==
    [][(hist'.call.seq # hist.call.seq /\ hist'.call.op = "Watch" /\ hist'.call.err) =>
         /\ wprofiles' = hist.begun.w.profiles
         /\ wcallbacks' = hist.begun.w.callbacks
         /\ hist'.call.name \notin DOMAIN hist.begun.w.profiles =>
               \A f \in Files : hist'.call.name \notin findMatchingProfiles(wprofiles', f)]_vars

====
